---- MODULE Spec2Model ----
(***************************************************************************)
(* The Hister backend client (package hister): one Client, one call at a   *)
(* time, either IndexURL (HTTP POST with retries) or Search (websocket     *)
(* dial / write / read with retries).  The network, the extractor, the     *)
(* timers and the caller's context are the environment: every outcome they *)
(* can produce is a nondeterministic choice.  Durations are milliseconds.  *)
(***************************************************************************)
EXTENDS Integers, Sequences, FiniteSets, TLC

\* ------------------------------------------------------------------ bounds
\* Raw retry budgets given to the client are drawn from -1..MaxConfiguredRetries.
MaxConfiguredRetries == 2

\* ------------------------------------------------------- program constants
defaultTimeout == 10000
defaultRetryBackoff == 100
defaultMaxRetryBackoff == 1000
defaultAddRetries == 3
defaultSearchRetries == 3
StatusCreated == 201

\* ------------------------------------------------------------ value domains
\* Raw configuration values (ClientOption or a field assignment by the caller).
ConfiguredRetries == -1 .. MaxConfiguredRetries
ConfiguredBackoffs == {<<0, 0>>, <<5, 20>>, <<20, 5>>}

\* Strings are sequences of characters; " " is white space.
NoText == <<>>
rawURL == <<"u">>
\* What c.Extract can return as page content.
ExtractResults ==
    { [Title |-> <<>>, Text |-> <<>>],
      [Title |-> <<" ">>, Text |-> <<"b">>],
      [Title |-> <<"a", " ">>, Text |-> <<" ", " ">>] }

NoTextMarker == "no text found"
\* What the backend can answer to a POST.
Responses ==
    { [StatusCode |-> 500, Body |-> ""],
      [StatusCode |-> 500, Body |-> NoTextMarker],
      [StatusCode |-> 200, Body |-> ""],
      [StatusCode |-> 404, Body |-> ""],
      [StatusCode |-> 201, Body |-> ""] }

VARIABLES
    c,          \* the Client's fields (the ones the retry loops read)
    configured, \* history: the raw values last given for those fields
    op,         \* "idle", "IndexURL" or "Search": the call in progress
    pc,         \* position of the call
    ctxErr,     \* TRUE once the caller's context is cancelled (ctx.Err() != nil)
    cancelPc,   \* history: where the call was when the context was cancelled
    attempt,    \* the loop variable attempt of addDocument / Search
    body,       \* addDocument's encoded form
    posts,      \* history: outcome of every HTTPClient.Do, in order
    sleeps,     \* history: duration of every timer sleepWithContext started
    timer,      \* duration of the live timer of sleepWithContext, 0 when none
    result,     \* what the call returned
    dials,      \* history: outcome of every c.DialWS, in order
    conns,      \* the connections the dials returned, in order
    reader,     \* the goroutine readMessageWithContext started
    readVal,    \* what that goroutine's conn.ReadMessage() returned
    resultCh,   \* the buffered channel resultCh
    sel,        \* the case that woke the select readMessageWithContext parked in
    onceRet,    \* what searchOnce returned to Search
    fnArg,      \* the arguments of the function applied (addDocument's payload)
    fnRet,      \* what that function returned
    calls       \* the concurrent calls on one client (concurrency specification)

addVars == <<body, posts>>
searchVars == <<dials, conns, reader, readVal, resultCh, sel, onceRet>>
fnVars == <<fnArg, fnRet, calls>>
vars == <<c, configured, op, pc, ctxErr, cancelPc, attempt, body, posts, sleeps, timer, result,
          dials, conns, reader, readVal, resultCh, sel, onceRet, fnArg, fnRet, calls>>

\* ------------------------------------------------------------------ errors
NoResult == [kind |-> "none", status |-> 0, attempts |-> 0, cause |-> ""]
\* return nil
Success == [NoResult EXCEPT !.kind = "ok"]
\* return ctx.Err()
CtxError == [NoResult EXCEPT !.kind = "canceled", !.cause = "canceled"]
\* fmt.Errorf("extract URL content: %w", err)
ExtractError(cause) == [NoResult EXCEPT !.kind = "extract", !.cause = cause]
\* fmt.Errorf("add request failed after %d attempts: %w", attempt+1, err)
AddTransportError(n) == [NoResult EXCEPT !.kind = "addTransport", !.attempts = n]
\* fmt.Errorf("add request failed with status %d", resp.StatusCode)
Add5xxError(status) == [NoResult EXCEPT !.kind = "add5xx", !.status = status]
\* &addStatusError{StatusCode, Body}
AddStatusError(status) == [NoResult EXCEPT !.kind = "addStatus", !.status = status]

\* ----------------------------------------------------------- configuration
\* applyDefaults, the fields the retry loops read.
applyDefaults(cl) ==
    LET t  == IF cl.Timeout <= 0 THEN defaultTimeout ELSE cl.Timeout
        a0 == IF cl.AddRetries < 0 THEN 0 ELSE cl.AddRetries
        s0 == IF cl.SearchRetries < 0 THEN 0 ELSE cl.SearchRetries
        a  == IF a0 = 0 THEN defaultAddRetries ELSE a0
        s  == IF s0 = 0 THEN defaultSearchRetries ELSE s0
        b  == IF cl.RetryBackoff <= 0 THEN defaultRetryBackoff ELSE cl.RetryBackoff
        m0 == IF cl.MaxRetryBackoff <= 0 THEN defaultMaxRetryBackoff ELSE cl.MaxRetryBackoff
        m  == IF m0 < b THEN b ELSE m0
    IN  [Timeout |-> t, AddRetries |-> a, SearchRetries |-> s,
         RetryBackoff |-> b, MaxRetryBackoff |-> m]

\* RetryBackoff and MaxRetryBackoff are time.Duration, a signed 64-bit integer
\* whose arithmetic wraps.  The model keeps the signed wrap-around at a width
\* of DurationBits bits, so that the top of the range is within reach.
DurationBits == 12
MaxDuration == 2^(DurationBits - 1) - 1
MinDuration == -(2^(DurationBits - 1))
wrapDuration(x) == ((x - MinDuration) % 2^DurationBits) + MinDuration

\* delay *= 2
doubleDelay(delay) == wrapDuration(delay * 2)

\* The loop of retryDelay: delay after i of the attempt iterations.
RECURSIVE retryDelayLoop(_, _, _, _)
retryDelayLoop(cl, delay, i, n) ==
    IF i < n
    THEN IF delay >= cl.MaxRetryBackoff
         THEN cl.MaxRetryBackoff
         ELSE retryDelayLoop(cl, doubleDelay(delay), i + 1, n)
    ELSE IF delay > cl.MaxRetryBackoff THEN cl.MaxRetryBackoff ELSE delay

retryDelay(cl, n) == retryDelayLoop(cl, cl.RetryBackoff, 0, n)

\* NewClient(baseURL, timeout, opts...): the options set raw fields, then
\* applyDefaults.
NewClient(raw) == applyDefaults(raw)

\* The two budgets are independent fields; the configurations tried pair each
\* add budget with a different search budget.
RawConfigs ==
    { [Timeout |-> 2000, AddRetries |-> a,
       SearchRetries |-> MaxConfiguredRetries - 1 - a,
       RetryBackoff |-> b[1], MaxRetryBackoff |-> b[2]] :
        a \in ConfiguredRetries, b \in ConfiguredBackoffs }

Init ==
    /\ configured \in RawConfigs
    /\ c = NewClient(configured)
    /\ op = "idle"
    /\ pc = "idle"
    /\ ctxErr = FALSE
    /\ cancelPc = ""
    /\ attempt = 0
    /\ body = <<>>
    /\ posts = <<>>
    /\ sleeps = <<>>
    /\ timer = 0
    /\ result = NoResult
    /\ dials = <<>>
    /\ conns = <<>>
    /\ reader = "none"
    /\ readVal = "none"
    /\ resultCh = <<>>
    /\ sel = "none"
    /\ onceRet = NoResult
    /\ fnArg = <<>>
    /\ fnRet = 0
    /\ calls = <<>>

\* ---------------------------------------------------------- field assignment
\* The fields are exported: between calls the caller may assign raw values
\* (c.RetryBackoff = ..., c.AddRetries = ...); no defaults are applied then.
AssignFields ==
    /\ pc = "idle"
    /\ \E raw \in RawConfigs :
        /\ configured' = raw
        /\ c' = raw
    /\ UNCHANGED <<op, pc, ctxErr, attempt, body, posts, sleeps, timer, result, searchVars>>
    /\ UNCHANGED <<cancelPc, fnVars>>

\* ----------------------------------------------------------------- context
\* The caller cancels the context of the call in progress.  A select parked
\* on ctx.Done() and resultCh with neither ready is woken by this case.
Cancel ==
    /\ op # "idle"
    /\ pc # "done"
    /\ ~ctxErr
    /\ ctxErr' = TRUE
    /\ cancelPc' = pc
    /\ sel' = IF pc = "select" /\ sel = "none" THEN "ctx" ELSE sel
    /\ UNCHANGED <<c, configured, op, pc, attempt, body, posts, sleeps, timer, result,
                   dials, conns, reader, readVal, resultCh, onceRet>>
    /\ UNCHANGED fnVars

\* ------------------------------------------------------------------- strings
\* strings.TrimSpace
RECURSIVE TrimLeft(_)
TrimLeft(s) == IF s # <<>> /\ Head(s) = " " THEN TrimLeft(Tail(s)) ELSE s

RECURSIVE TrimRight(_)
TrimRight(s) ==
    IF s # <<>> /\ s[Len(s)] = " " THEN TrimRight(SubSeq(s, 1, Len(s) - 1)) ELSE s

TrimSpace(s) == TrimRight(TrimLeft(s))

\* ------------------------------------------------------------------ backoff
\* Where the retry loop of the call in progress starts its next attempt.
retryPc == IF op = "IndexURL" THEN "post" ELSE "dial"

\* Mutant of EnterSleep: every sleep lasts the default backoff.
EnterSleepDefault(d) ==
    /\ pc' = "sleep"
    /\ timer' = defaultRetryBackoff
    /\ sleeps' = Append(sleeps, defaultRetryBackoff)
    /\ UNCHANGED attempt

\* sleepWithContext(ctx, d) is entered: no timer when d <= 0 (it returns nil
\* at once and the loop goes on to the next attempt), else a timer of d.
EnterSleep(d) ==
    IF d <= 0
    THEN /\ pc' = retryPc
         /\ attempt' = attempt + 1
         /\ UNCHANGED <<sleeps, timer>>
    ELSE /\ pc' = "sleep"
         /\ timer' = d
         /\ sleeps' = Append(sleeps, d)
         /\ UNCHANGED attempt

\* select case <-t.C: the timer fires, the deferred t.Stop() runs, the loop
\* continues with attempt++.
SleepFires ==
    /\ pc = "sleep"
    /\ timer' = 0
    /\ attempt' = attempt + 1
    /\ pc' = retryPc
    /\ UNCHANGED <<c, configured, op, ctxErr, body, posts, sleeps, result, searchVars>>
    /\ UNCHANGED <<cancelPc, fnVars>>

\* select case <-ctx.Done(): return ctx.Err(), which the loop returns as is.
SleepCancelled ==
    /\ pc = "sleep"
    /\ ctxErr
    /\ timer' = 0
    /\ result' = CtxError
    /\ pc' = "done"
    /\ UNCHANGED <<c, configured, op, ctxErr, attempt, body, posts, sleeps, searchVars>>
    /\ UNCHANGED <<cancelPc, fnVars>>

\* ----------------------------------------------------------------- IndexURL
\* prepare() succeeds (the base URL is valid) and applies the defaults; the
\* endpoint resolves; c.Extract is called.
StartIndexURL ==
    /\ pc = "idle"
    /\ op' = "IndexURL"
    /\ c' = applyDefaults(c)
    /\ pc' = "extract"
    /\ ctxErr' = FALSE
    /\ cancelPc' = ""
    /\ attempt' = 0
    /\ body' = <<>>
    /\ posts' = <<>>
    /\ sleeps' = <<>>
    /\ timer' = 0
    /\ result' = NoResult
    /\ UNCHANGED <<configured, searchVars>>
    /\ UNCHANGED fnVars

\* Mutant of encodeForm: title and text are left out only when empty.
encodeFormNonEmpty(payload) ==
    [url |-> payload.URL,
     title |-> payload.Title,
     hasTitle |-> payload.Title # <<>>,
     text |-> payload.Text,
     hasText |-> payload.Text # <<>>]

\* addDocument's form: url always, title and text when not blank.
encodeForm(payload) ==
    [url |-> payload.URL,
     title |-> IF TrimSpace(payload.Title) # <<>> THEN payload.Title ELSE NoText,
     hasTitle |-> TrimSpace(payload.Title) # <<>>,
     text |-> IF TrimSpace(payload.Text) # <<>> THEN payload.Text ELSE NoText,
     hasText |-> TrimSpace(payload.Text) # <<>>]

\* c.Extract returns content: addDocument builds the form and enters its loop.
ExtractReturns ==
    /\ op = "IndexURL"
    /\ pc = "extract"
    /\ \E content \in ExtractResults :
        /\ fnArg' = [URL |-> rawURL, Title |-> content.Title, Text |-> content.Text]
        /\ body' = encodeForm(fnArg')
    /\ attempt' = 0
    /\ pc' = "post"
    /\ UNCHANGED <<c, configured, op, ctxErr, posts, sleeps, timer, result, searchVars>>
    /\ UNCHANGED <<cancelPc, fnRet, calls>>

\* The causes c.Extract can fail with: the page cannot be fetched, or the
\* fetch was aborted by the cancelled context (ExtractFromURL wraps either).
extractFailures == {"unreachable"} \cup (IF ctxErr THEN {"canceled"} ELSE {})

\* What IndexURL returns when c.Extract returned an error.
extractFailed(cause) == ExtractError(cause)

\* c.Extract returns an error: IndexURL returns.
ExtractFails ==
    /\ op = "IndexURL"
    /\ pc = "extract"
    /\ \E cause \in extractFailures : result' = extractFailed(cause)
    /\ pc' = "done"
    /\ UNCHANGED <<c, configured, op, ctxErr, attempt, body, posts, sleeps, timer, searchVars>>
    /\ UNCHANGED <<cancelPc, fnVars>>

\* An entry of posts: the form sent and what came back (StatusCode 0: the
\* transport returned an error, there is no response).
Post(resp) == [sent |-> body, StatusCode |-> resp.StatusCode, Body |-> resp.Body]
TransportFailure == [StatusCode |-> 0, Body |-> ""]

\* Mutant of addRetryAllowed: the budget is spent one attempt early.
addRetryAllowedOneLess(cl, n) == n + 1 < cl.AddRetries

\* attempt < c.AddRetries
addRetryAllowed(cl, n) == n < cl.AddRetries

\* c.HTTPClient.Do(req) returns an error.
PostTransportError ==
    /\ op = "IndexURL"
    /\ pc = "post"
    /\ posts' = Append(posts, Post(TransportFailure))
    /\ IF ctxErr
       THEN /\ result' = CtxError
            /\ pc' = "done"
            /\ UNCHANGED <<attempt, sleeps, timer>>
       ELSE IF addRetryAllowed(c, attempt)
       THEN /\ EnterSleep(retryDelay(c, attempt))
            /\ UNCHANGED result
       ELSE /\ result' = AddTransportError(attempt + 1)
            /\ pc' = "done"
            /\ UNCHANGED <<attempt, sleeps, timer>>
    /\ UNCHANGED <<c, configured, op, ctxErr, body, searchVars>>
    /\ UNCHANGED <<cancelPc, fnVars>>

\* Mutant of classifyStatus: any 2xx status counts as created.
classifyStatusAny2xx(status) ==
    IF status >= 500 THEN "retryable"
    ELSE IF status < 200 \/ status >= 300 THEN "terminal"
    ELSE "created"

\* How addDocument classifies a response status.
classifyStatus(status) ==
    IF status >= 500 THEN "retryable"
    ELSE IF status # StatusCreated THEN "terminal"
    ELSE "created"

\* c.HTTPClient.Do(req) returns a response.
PostResponse ==
    /\ op = "IndexURL"
    /\ pc = "post"
    /\ \E resp \in Responses :
        /\ posts' = Append(posts, Post(resp))
        /\ CASE classifyStatus(resp.StatusCode) = "retryable" ->
                    IF addRetryAllowed(c, attempt)
                    THEN /\ EnterSleep(retryDelay(c, attempt))
                         /\ UNCHANGED result
                    ELSE /\ result' = Add5xxError(resp.StatusCode)
                         /\ pc' = "done"
                         /\ UNCHANGED <<attempt, sleeps, timer>>
             [] classifyStatus(resp.StatusCode) = "terminal" ->
                    /\ result' = AddStatusError(resp.StatusCode)
                    /\ pc' = "done"
                    /\ UNCHANGED <<attempt, sleeps, timer>>
             [] OTHER ->
                    /\ result' = Success
                    /\ pc' = "done"
                    /\ UNCHANGED <<attempt, sleeps, timer>>
    /\ UNCHANGED <<c, configured, op, ctxErr, body, searchVars>>
    /\ UNCHANGED <<cancelPc, fnVars>>

\* ------------------------------------------------------------------- Search
\* fmt.Errorf("search dial failed after %d attempts: %w", attempt+1, err)
DialError(n) == [NoResult EXCEPT !.kind = "dial", !.attempts = n]
\* fmt.Errorf("write search request: %w", err)
WriteError(cause) == [NoResult EXCEPT !.kind = "write", !.cause = cause]
\* fmt.Errorf("read search response: %w", res.err)
ReadError(cause) == [NoResult EXCEPT !.kind = "read", !.cause = cause]
\* &nonRetryableError{err: fmt.Errorf("decode search response: %w", err)}
DecodeError == [NoResult EXCEPT !.kind = "decode", !.cause = "nonRetryable"]

\* What conn.ReadMessage() can return on an open connection: a message that
\* decodes, one that does not, a close frame (normal or not), an I/O error,
\* the read deadline expiring.
ReadOutcomes == {"msg", "garbage", "closeNormal", "closeAbnormal", "io", "timeout"}
\* What conn.WriteMessage() can fail with.
WriteFailures == {"io"}

\* prepare() succeeds and applies the defaults; the endpoint resolves; the
\* request is marshalled; the loop starts with attempt 0.
StartSearch ==
    /\ pc = "idle"
    /\ op' = "Search"
    /\ c' = applyDefaults(c)
    /\ pc' = "dial"
    /\ ctxErr' = FALSE
    /\ cancelPc' = ""
    /\ attempt' = 0
    /\ body' = <<>>
    /\ posts' = <<>>
    /\ sleeps' = <<>>
    /\ timer' = 0
    /\ result' = NoResult
    /\ dials' = <<>>
    /\ conns' = <<>>
    /\ reader' = "none"
    /\ readVal' = "none"
    /\ resultCh' = <<>>
    /\ sel' = "none"
    /\ onceRet' = NoResult
    /\ UNCHANGED configured
    /\ UNCHANGED fnVars

\* Mutant of dialRetryAllowed: the budget is spent one dial early.
dialRetryAllowedOneLess(cl, n) == n + 1 < cl.SearchRetries

\* Mutant of dialRetryAllowed: one dial beyond the budget.
dialRetryAllowedOneMore(cl, n) == n <= cl.SearchRetries

\* attempt < c.SearchRetries, after a failed dial
dialRetryAllowed(cl, n) == n < cl.SearchRetries

\* c.DialWS returns an error.
DialFails ==
    /\ op = "Search"
    /\ pc = "dial"
    /\ dials' = Append(dials, "failed")
    /\ IF ctxErr
       THEN /\ result' = CtxError
            /\ pc' = "done"
            /\ UNCHANGED <<attempt, sleeps, timer>>
       ELSE IF dialRetryAllowed(c, attempt)
       THEN /\ EnterSleep(retryDelay(c, attempt))
            /\ UNCHANGED result
       ELSE /\ result' = DialError(attempt + 1)
            /\ pc' = "done"
            /\ UNCHANGED <<attempt, sleeps, timer>>
    /\ UNCHANGED <<c, configured, op, ctxErr, addVars,
                   conns, reader, readVal, resultCh, sel, onceRet>>
    /\ UNCHANGED <<cancelPc, fnVars>>

\* A connection as c.DialWS returns it.
\* log lists, oldest first, the calls made on the connection.
NewConn == [open |-> TRUE, writes |-> 0, reads |-> 0, recv |-> "none", log |-> <<"dial">>]

\* c.DialWS returns a connection: searchOnce sets the write deadline and
\* calls conn.WriteMessage.
DialSucceeds ==
    /\ op = "Search"
    /\ pc = "dial"
    /\ dials' = Append(dials, "ok")
    /\ conns' = Append(conns, NewConn)
    /\ pc' = "write"
    /\ UNCHANGED <<c, configured, op, ctxErr, attempt, addVars, sleeps, timer, result,
                   reader, readVal, resultCh, sel, onceRet>>
    /\ UNCHANGED <<cancelPc, fnVars>>

\* The connection of the current attempt.
cur == Len(conns)

\* conn.WriteMessage returns an error: searchOnce returns it wrapped.
WriteFails ==
    /\ op = "Search"
    /\ pc = "write"
    /\ conns' = [conns EXCEPT ![cur].writes = @ + 1, ![cur].log = Append(@, "write")]
    /\ \E cause \in WriteFailures : onceRet' = WriteError(cause)
    /\ pc' = "onceDone"
    /\ UNCHANGED <<c, configured, op, ctxErr, attempt, addVars, sleeps, timer, result,
                   dials, reader, readVal, resultCh, sel>>
    /\ UNCHANGED <<cancelPc, fnVars>>

\* conn.WriteMessage returns nil: readMessageWithContext makes resultCh, sets
\* the read deadline and starts the goroutine (the go statement returns at
\* once, the goroutine runs when it is scheduled).
WriteSucceeds ==
    /\ op = "Search"
    /\ pc = "write"
    /\ conns' = [conns EXCEPT ![cur].writes = @ + 1, ![cur].log = Append(@, "write")]
    /\ reader' = "spawned"
    /\ readVal' = "none"
    /\ resultCh' = <<>>
    /\ sel' = "none"
    /\ pc' = "spawned"
    /\ UNCHANGED <<c, configured, op, ctxErr, attempt, addVars, sleeps, timer, result,
                   dials, onceRet>>
    /\ UNCHANGED <<cancelPc, fnVars>>

\* The goroutine is scheduled and calls conn.ReadMessage().
ReaderStarts ==
    /\ reader = "spawned"
    /\ conns' = [conns EXCEPT ![cur].reads = @ + 1, ![cur].log = Append(@, "read")]
    /\ reader' = "reading"
    /\ UNCHANGED <<c, configured, op, pc, ctxErr, attempt, addVars, sleeps, timer, result,
                   dials, readVal, resultCh, sel, onceRet>>
    /\ UNCHANGED <<cancelPc, fnVars>>

\* The goroutine: conn.ReadMessage() returns.  On a closed connection it
\* returns the error of the closed connection.
ReadReturns ==
    /\ reader = "reading"
    /\ \E v \in (IF conns[cur].open THEN ReadOutcomes ELSE {"closed"}) : readVal' = v
    /\ reader' = "deliver"
    /\ UNCHANGED <<c, configured, op, pc, ctxErr, attempt, addVars, sleeps, timer, result,
                   dials, conns, resultCh, sel, onceRet>>
    /\ UNCHANGED <<cancelPc, fnVars>>

\* The goroutine: resultCh <- readResult{...} (never blocks, the buffer is
\* 1), then the goroutine ends.  A select parked with neither case ready is
\* woken by this case.
ReaderSends ==
    /\ reader = "deliver"
    /\ resultCh' = <<readVal>>
    /\ reader' = "finished"
    /\ sel' = IF pc = "select" /\ sel = "none" THEN "res" ELSE sel
    /\ UNCHANGED <<c, configured, op, pc, ctxErr, attempt, addVars, sleeps, timer, result,
                   dials, conns, readVal, onceRet>>
    /\ UNCHANGED <<cancelPc, fnVars>>

\* The select of readMessageWithContext finds no case ready and parks.
Park ==
    /\ op = "Search"
    /\ pc = "spawned"
    /\ ~ctxErr
    /\ resultCh = <<>>
    /\ pc' = "select"
    /\ UNCHANGED <<c, configured, op, ctxErr, attempt, addVars, sleeps, timer, result,
                   searchVars>>
    /\ UNCHANGED <<cancelPc, fnVars>>

\* Mutant of onCtxDone: the connection is not closed on cancellation.
onCtxDoneNoClose(conn) == [conn |-> [conn EXCEPT !.recv = "ctx"], ret |-> CtxError]

\* case <-ctx.Done(): what happens to the connection and what
\* readMessageWithContext returns.
onCtxDone(conn) ==
    [conn |-> [conn EXCEPT !.open = FALSE, !.recv = "ctx", !.log = Append(@, "close")],
     ret |-> CtxError]

\* The select takes case <-ctx.Done(): either it finds the case ready on
\* arrival (both may be ready: the choice is free), or it was parked and
\* woken by the cancellation.
SelectCtxDone ==
    /\ op = "Search"
    /\ \/ pc = "spawned" /\ ctxErr
       \/ pc = "select" /\ sel = "ctx"
    /\ conns' = [conns EXCEPT ![cur] = onCtxDone(conns[cur]).conn]
    /\ onceRet' = onCtxDone(conns[cur]).ret
    /\ pc' = "onceDone"
    /\ UNCHANGED <<c, configured, op, ctxErr, attempt, addVars, sleeps, timer, result,
                   dials, reader, readVal, resultCh, sel>>
    /\ UNCHANGED <<cancelPc, fnVars>>

\* parseSearchResults on a message read: it decodes or it does not.
parseOutcome(v) == IF v = "msg" THEN Success ELSE DecodeError

\* case res := <-resultCh: what searchOnce returns for the value received,
\* given whether ctx.Err() != nil at that moment.
onResult(v, cancelled) ==
    IF v \notin {"msg", "garbage"}
    THEN IF cancelled THEN CtxError ELSE ReadError(v)
    ELSE parseOutcome(v)

\* The select takes case res := <-resultCh.
SelectResult ==
    /\ op = "Search"
    /\ \/ pc = "spawned" /\ resultCh # <<>>
       \/ pc = "select" /\ sel = "res"
    /\ conns' = [conns EXCEPT ![cur].recv = Head(resultCh)]
    /\ onceRet' = onResult(Head(resultCh), ctxErr)
    /\ resultCh' = <<>>
    /\ pc' = "onceDone"
    /\ UNCHANGED <<c, configured, op, ctxErr, attempt, addVars, sleeps, timer, result,
                   dials, reader, readVal, sel>>
    /\ UNCHANGED <<cancelPc, fnVars>>

\* Mutant of isRetryableWSError: a normal close is retried like any error.
isRetryableWSErrorAlways(err) == TRUE

\* Mutant of isRetryableWSError: only an abnormal close frame is retried.
isRetryableWSErrorCloseOnly(err) == err.cause = "closeAbnormal"

\* errors.As(err, &closeErr) with CloseNormalClosure is the one error that is
\* not retryable.
isRetryableWSError(err) == err.cause # "closeNormal"

\* Mutant of isNonRetryable: a decode error is not recognised.
isNonRetryableNever(err) == FALSE

\* errors.As(err, &nonRetryable)
isNonRetryable(err) == err.kind = "decode"

\* Mutant of searchExhausted: one round trip too many.
searchExhaustedLate(cl, n) == n > cl.SearchRetries

\* attempt >= c.SearchRetries, after a failed round trip
searchExhausted(cl, n) == n >= cl.SearchRetries

\* Mutant of closeAfterAttempt: the connection is closed on success only.
closeAfterAttemptOnSuccess(conn, ret) ==
    IF ret.kind = "ok" THEN [conn EXCEPT !.open = FALSE] ELSE conn

\* _ = conn.Close() after searchOnce
closeAfterAttempt(conn, ret) == [conn EXCEPT !.open = FALSE, !.log = Append(@, "close")]

\* What Search does with the error searchOnce returned: "sleep" or the value
\* it returns.
afterSearchOnce(ret, cancelled, cl, n) ==
    IF ret.kind = "ok" THEN ret
    ELSE IF isNonRetryable(ret) THEN ret
    ELSE IF cancelled THEN CtxError
    ELSE IF searchExhausted(cl, n) THEN ret
    ELSE IF ~isRetryableWSError(ret) THEN ret
    ELSE [NoResult EXCEPT !.kind = "sleep"]

\* searchOnce has returned: Search closes the connection and returns or backs
\* off.
AfterSearchOnce ==
    /\ op = "Search"
    /\ pc = "onceDone"
    /\ conns' = [conns EXCEPT ![cur] = closeAfterAttempt(conns[cur], onceRet)]
    /\ onceRet' = NoResult
    /\ LET nxt == afterSearchOnce(onceRet, ctxErr, c, attempt)
       IN  IF nxt.kind = "sleep"
           THEN /\ EnterSleep(retryDelay(c, attempt))
                /\ UNCHANGED result
           ELSE /\ result' = nxt
                /\ pc' = "done"
                /\ UNCHANGED <<attempt, sleeps, timer>>
    /\ UNCHANGED <<c, configured, op, ctxErr, addVars,
                   dials, reader, readVal, resultCh, sel>>
    /\ UNCHANGED <<cancelPc, fnVars>>

\* The caller has the result; the client is idle again (the histories of the
\* call are forgotten).
Return ==
    /\ pc = "done"
    /\ op' = "idle"
    /\ pc' = "idle"
    /\ ctxErr' = FALSE
    /\ cancelPc' = ""
    /\ attempt' = 0
    /\ body' = <<>>
    /\ posts' = <<>>
    /\ sleeps' = <<>>
    /\ result' = NoResult
    /\ dials' = <<>>
    /\ conns' = <<>>
    /\ reader' = "none"
    /\ readVal' = "none"
    /\ resultCh' = <<>>
    /\ sel' = "none"
    /\ onceRet' = NoResult
    /\ fnArg' = <<>>
    /\ UNCHANGED <<c, configured, timer>>
    /\ UNCHANGED <<fnRet, calls>>

\* ------------------------------------------------------------------ helpers
is5xx(p) == p.StatusCode >= 500
isTerminalStatus(p) == p.StatusCode # 0 /\ p.StatusCode # StatusCreated /\ p.StatusCode < 500
AllServerErrors(seq) == \A i \in 1 .. Len(seq) : is5xx(seq[i])
AllDialsFailed(seq) == \A i \in 1 .. Len(seq) : seq[i] = "failed"
Front(seq) == SubSeq(seq, 1, Len(seq) - 1)
AllClosed == \A i \in 1 .. Len(conns) : ~conns[i].open

\* ------------------------------------------------------------------- claims

\* C1: IndexURL, backend answers 5xx to the first k POSTs (k <= the retry
\* budget) and 201 to POST k+1.  While only 5xx answers have come, at most
\* budget many, and the context is live, the call has not returned: it sleeps
\* or sends the next POST.  When the 201 comes after k 5xx answers the call
\* returns success at once, so exactly k+1 POSTs were sent.
C1_RetriesOnServerError ==
    op = "IndexURL" =>
        /\ (posts # <<>> /\ AllServerErrors(posts) /\ Len(posts) <= c.AddRetries /\ ~ctxErr)
              => pc \in {"sleep", "post"}
        /\ (posts # <<>> /\ posts[Len(posts)].StatusCode = StatusCreated
                         /\ AllServerErrors(Front(posts)))
              => /\ pc = "done"
                 /\ result = Success
                 /\ Len(posts) <= c.AddRetries + 1

\* C1 witness: 500, 500, 201 has succeeded with exactly 3 POSTs.
C1_Witness ==
    /\ op = "IndexURL"
    /\ pc = "done"
    /\ result = Success
    /\ Len(posts) = 3
    /\ posts[1].StatusCode = 500
    /\ posts[2].StatusCode = 500
    /\ posts[3].StatusCode = StatusCreated

\* C2: IndexURL, a response whose status is neither 201 nor 5xx (200 among
\* them) is the last POST of the call: the call has returned an error that
\* carries that status, no sleep was started after it (one sleep per earlier
\* attempt only, none when it answers the first POST) and no timer is live.
C2_RequiresCreatedStatus ==
    op = "IndexURL" =>
        \A i \in 1 .. Len(posts) :
            isTerminalStatus(posts[i]) =>
                /\ i = Len(posts)
                /\ pc = "done"
                /\ result = AddStatusError(posts[i].StatusCode)
                /\ Len(sleeps) = i - 1
                /\ timer = 0

\* C2 witness: the first POST was answered 200 and the call has failed with it.
C2_Witness ==
    /\ op = "IndexURL"
    /\ pc = "done"
    /\ Len(posts) = 1
    /\ posts[1].StatusCode = 200
    /\ result.kind = "addStatus"
    /\ result.status = 200
    /\ sleeps = <<>>

\* C3: IndexURL, when the first POST carried only url and failed with a body
\* holding the 'no text found' marker, exactly one more POST is sent, with
\* non-empty title and text, outside the retry budget (no backoff sleep), and
\* a 201 on it makes the call succeed with 2 POSTs in total.
C3_NoTextFallback ==
    (/\ op = "IndexURL"
     /\ posts # <<>>
     /\ ~posts[1].sent.hasTitle
     /\ ~posts[1].sent.hasText
     /\ posts[1].StatusCode \notin {0, StatusCreated}
     /\ posts[1].Body = NoTextMarker)
        => /\ Len(posts) <= 2
           /\ Len(posts) = 2 =>
                /\ posts[2].sent.title # NoText
                /\ posts[2].sent.text # NoText
                /\ posts[2].StatusCode = StatusCreated => result = Success

\* C4: Search, the first k dials fail (k <= the search retry budget) and dial
\* k+1 succeeds with a well-formed reply.  While only failed dials have
\* happened, at most budget many, and the context is live, the call has not
\* returned and has no connection.  When the first connection delivers a
\* message that decodes, the call returns success with exactly k+1 dials, one
\* write and one read.
C4_ReconnectsAfterDialFailure ==
    op = "Search" =>
        /\ (dials # <<>> /\ AllDialsFailed(dials) /\ Len(dials) <= c.SearchRetries /\ ~ctxErr)
              => pc \in {"sleep", "dial"} /\ conns = <<>>
        /\ (dials # <<>> /\ AllDialsFailed(Front(dials)) /\ dials[Len(dials)] = "ok"
                         /\ conns[1].recv = "msg")
              => /\ pc \in {"onceDone", "done"}
                 /\ pc = "onceDone" => onceRet = Success
                 /\ pc = "done" => result = Success
                 /\ Len(dials) <= c.SearchRetries + 1
                 /\ Len(conns) = 1
                 /\ conns[1].writes = 1
                 /\ conns[1].reads = 1

\* C4 witness: one failed dial, then a dial and a round trip that succeeded.
C4_Witness ==
    /\ op = "Search"
    /\ pc = "done"
    /\ result = Success
    /\ dials = <<"failed", "ok">>
    /\ conns[1].writes = 1
    /\ conns[1].reads = 1

\* C5: Search, a message that cannot be decoded ends the call: it was read on
\* the last connection, the call returns the decode error, and no sleep and
\* no dial follow it (one dial per attempt so far, one sleep per earlier
\* attempt), whatever budget remains.
C5_DecodeErrorIsTerminal ==
    op = "Search" =>
        \A i \in 1 .. Len(conns) :
            conns[i].recv = "garbage" =>
                /\ i = Len(conns)
                /\ pc \in {"onceDone", "done"}
                /\ pc = "onceDone" => onceRet = DecodeError
                /\ pc = "done" => result = DecodeError
                /\ Len(dials) = attempt + 1
                /\ Len(sleeps) = attempt
                /\ timer = 0

\* C5 witness: the decode error was returned with retry budget left.
C5_Witness ==
    /\ op = "Search"
    /\ pc = "done"
    /\ result = DecodeError
    /\ attempt < c.SearchRetries

\* C6: Search, the context is cancelled while the call is parked in the
\* select with the reply not delivered (sel = "ctx").  The parked select is
\* runnable as soon as the context is cancelled (it waits for no read result,
\* so for no read deadline) and it takes the cancellation case.  Whenever the
\* cancellation case is taken, the connection is closed when
\* readMessageWithContext returns, no further attempt is made, and the call
\* returns the context's error, not a read error.
C6_CancelInterruptsRead ==
    op = "Search" =>
        /\ (pc = "select" /\ ctxErr) => sel # "none"
        /\ sel = "ctx" =>
            /\ pc \in {"select", "onceDone", "done"}
            /\ pc \in {"onceDone", "done"} => conns[cur].recv = "ctx"
        /\ \A i \in 1 .. Len(conns) :
            conns[i].recv = "ctx" =>
                /\ i = cur
                /\ ~conns[i].open
                /\ pc \in {"onceDone", "done"}
                /\ pc = "onceDone" => onceRet = CtxError
                /\ pc = "done" => result = CtxError

\* C6 witness: the call returned the cancellation error after a cancellation
\* that came while the read had returned nothing.
C6_Witness ==
    /\ op = "Search"
    /\ pc = "done"
    /\ sel = "ctx"
    /\ result = CtxError
    /\ reader = "reading"
    /\ ~conns[cur].open

\* C7: IndexURL, an operation aborted by the cancellation of the context
\* (during extraction, the send or a backoff sleep) returns the cancellation
\* error itself, never an error that wraps it.
C7_CancellationNotWrapped ==
    (op = "IndexURL" /\ pc = "done" /\ result.cause = "canceled") => result = CtxError

\* C8: Search, every connection a dial returned is closed whenever the call
\* dials, sleeps or has returned, and at any time only the connection of the
\* current attempt can be open.
C8_ConnectionsClosed ==
    op = "Search" =>
        /\ pc \in {"dial", "sleep", "done"} => AllClosed
        /\ \A i \in 1 .. Len(conns) - 1 : ~conns[i].open

\* C8 witness: a call that used two connections has returned.
C8_Witness ==
    /\ op = "Search"
    /\ pc = "done"
    /\ Len(conns) = 2
    /\ conns[1].recv = "io"
    /\ AllClosed

\* C9: at the moment Search returns, the reader goroutine has finished (it
\* is neither in ReadMessage nor about to send its result), no timer is live
\* and every connection is closed.
C9_NothingOutlivesCall ==
    (op = "Search" /\ pc = "done") =>
        /\ reader \in {"none", "finished"}
        /\ timer = 0
        /\ AllClosed

\* The calls all of whose attempts failed retryably until the budget ran out.
AddGaveUp == op = "IndexURL" /\ pc = "done" /\ result.kind \in {"addTransport", "add5xx"}
SearchGaveUp ==
    /\ op = "Search"
    /\ pc = "done"
    /\ \/ result.kind \in {"dial", "write"}
       \/ result.kind = "read" /\ result.cause # "closeNormal"

\* C10 as stated: for every configured budget maxAttempts >= 0, 0 included, a
\* call whose every attempt fails retryably makes exactly maxAttempts + 1
\* attempts.
C10_AttemptsAsConfigured ==
    /\ (AddGaveUp /\ configured.AddRetries >= 0)
          => Len(posts) = configured.AddRetries + 1
    /\ (SearchGaveUp /\ configured.SearchRetries >= 0)
          => Len(dials) = configured.SearchRetries + 1

\* C10 amended: a configured budget >= 1 gives exactly budget + 1 attempts; a
\* configured budget of 0 or less is replaced by the default budget, so
\* default + 1 attempts are made.
C10_AttemptsAfterDefaults ==
    /\ AddGaveUp =>
          Len(posts) = (IF configured.AddRetries >= 1 THEN configured.AddRetries
                        ELSE defaultAddRetries) + 1
    /\ SearchGaveUp =>
          Len(dials) = (IF configured.SearchRetries >= 1 THEN configured.SearchRetries
                        ELSE defaultSearchRetries) + 1

\* C10 witness: with a configured budget of 0 every one of 4 POSTs failed.
C10_Witness ==
    /\ AddGaveUp
    /\ configured.AddRetries = 0
    /\ Len(posts) = defaultAddRetries + 1
    /\ AllServerErrors(posts)

\* ------------------------------------------------- retryDelay on its own
\* retryDelay applied to every prepared configuration of the two durations
\* and every attempt index up to MaxAttempt.
MaxAttempt == 13

DelayBackoffs == {-1, 0, 1, 3, 100, 3 * 2^(DurationBits - 3), MaxDuration}
DelayMaxBackoffs == {0, 2, 1000, 2^(DurationBits - 2), MaxDuration - 1, MaxDuration}

DelayConfigs ==
    { [Timeout |-> 2000, AddRetries |-> 0, SearchRetries |-> 0,
       RetryBackoff |-> b, MaxRetryBackoff |-> m] :
        b \in DelayBackoffs, m \in DelayMaxBackoffs }

InitDelay ==
    /\ configured \in DelayConfigs
    /\ c = NewClient(configured)
    /\ op = "retryDelay"
    /\ pc = "call"
    /\ fnArg \in 0..MaxAttempt
    /\ fnRet = 0
    /\ calls = <<>>
    /\ ctxErr = FALSE
    /\ cancelPc = ""
    /\ attempt = 0
    /\ body = <<>>
    /\ posts = <<>>
    /\ sleeps = <<>>
    /\ timer = 0
    /\ result = NoResult
    /\ dials = <<>>
    /\ conns = <<>>
    /\ reader = "none"
    /\ readVal = "none"
    /\ resultCh = <<>>
    /\ sel = "none"
    /\ onceRet = NoResult

\* c.retryDelay(attempt)
CallRetryDelay ==
    /\ op = "retryDelay"
    /\ pc = "call"
    /\ fnRet' = retryDelay(c, fnArg)
    /\ pc' = "ret"
    /\ UNCHANGED <<c, configured, op, ctxErr, attempt, sleeps, timer, result,
                   addVars, searchVars, cancelPc, fnArg, calls>>

NextDelay == CallRetryDelay

SpecDelay == InitDelay /\ [][NextDelay]_vars

\* --------------------------------------------------- claims about retryDelay
minOf(a, b) == IF a <= b THEN a ELSE b

DelayReturned == op = "retryDelay" /\ pc = "ret"

\* C11: for every attempt >= 0 and every prepared configuration
\* (initialDelay > 0, maxDelay >= initialDelay), retryDelay(attempt) is
\* min(initialDelay * 2^attempt, maxDelay).
C11_DelayIsCappedDoubling ==
    DelayReturned =>
        fnRet = minOf(c.RetryBackoff * 2^fnArg, c.MaxRetryBackoff)

\* C12: retryDelay is non-decreasing in the attempt (a <= b implies
\* retryDelay(a) <= retryDelay(b)) and never exceeds maxDelay.
C12_DelayMonotoneAndCapped ==
    DelayReturned =>
        /\ fnRet <= c.MaxRetryBackoff
        /\ \A a \in 0..fnArg : retryDelay(c, a) <= fnRet

\* C13: with a non-zero initialDelay retryDelay never returns a zero or
\* negative delay, for every configuration applyDefaults accepts (maxDelay
\* above half the representable range included) and every attempt: the
\* doubling does not wrap around.
C13_DelayPositive ==
    DelayReturned => fnRet > 0

\* ------------------------------------------- claims about the retry loops

\* C14: when a retryable failure persists until the budget is exhausted, the
\* error returned names the attempt count: for IndexURL both when the last
\* failure is a transport error and when it is a 5xx status, for Search both
\* when it is a dial error and when it is a connection-level round-trip error.
C14_ExhaustionNamesAttemptCount ==
    /\ AddGaveUp => result.attempts = Len(posts)
    /\ SearchGaveUp => result.attempts = Len(dials)

\* C15: Search, a failed dial is retried and counts as one attempt (one dial
\* per value of the attempt counter).  When every dial fails the call stops
\* once the budget is exhausted, after budget + 1 dials, and returns the
\* terminal dial error; no connection ever existed, so nothing was written
\* or read.
C15_AllDialsFail ==
    op = "Search" =>
        /\ Len(dials) = (IF pc = "dial" THEN attempt ELSE attempt + 1)
        /\ AllDialsFailed(dials) =>
              /\ conns = <<>>
              /\ Len(dials) <= c.SearchRetries + 1
              /\ (pc = "done" /\ result.kind # "canceled") =>
                    /\ result = DialError(c.SearchRetries + 1)
                    /\ Len(dials) = c.SearchRetries + 1
                    /\ Len(sleeps) = c.SearchRetries

\* C15 witness: at least two dials, all failed, and the call returned the
\* dial error.
C15_Witness ==
    /\ op = "Search"
    /\ pc = "done"
    /\ Len(dials) >= 2
    /\ AllDialsFailed(dials)
    /\ result = DialError(Len(dials))
    /\ conns = <<>>

\* C16: Search, a read that ends with the normal close code is terminal: it
\* was read on the last connection, the call returns that read error (the
\* context's error if the context is cancelled by then), and no backoff sleep
\* and no dial follow it (one dial per attempt so far, one sleep per earlier
\* attempt), whatever budget remains.
C16_NormalCloseIsTerminal ==
    op = "Search" =>
        \A i \in 1 .. Len(conns) :
            conns[i].recv = "closeNormal" =>
                /\ i = Len(conns)
                /\ pc \in {"onceDone", "done"}
                /\ pc = "onceDone" => onceRet \in {ReadError("closeNormal"), CtxError}
                /\ pc = "done" => result \in {ReadError("closeNormal"), CtxError}
                /\ (pc = "done" /\ ~ctxErr) => result = ReadError("closeNormal")
                /\ Len(dials) = attempt + 1
                /\ Len(sleeps) = attempt
                /\ timer = 0

\* C16 witness: the normal-close read error was returned with budget left.
C16_Witness ==
    /\ op = "Search"
    /\ pc = "done"
    /\ result = ReadError("closeNormal")
    /\ conns[Len(conns)].recv = "closeNormal"
    /\ attempt < c.SearchRetries

\* A connection whose round trip failed at connection level and that Search
\* has closed: the write failed (nothing was read), or the read ended with an
\* I/O error, a deadline or an abnormal close.
RoundTripFailed(conn) ==
    /\ ~conn.open
    /\ conn.writes = 1
    /\ \/ conn.recv = "none" /\ conn.reads = 0
       \/ conn.recv \in {"io", "timeout", "closeAbnormal"} /\ conn.reads = 1

\* C17: Search, a connection-level round-trip failure with attempts remaining
\* (and a live context) leads to: the connection is closed, a backoff sleep of
\* retryDelay(attempt) follows, then a new connection is dialled.  A
\* connection on which a round trip failed is never written or read again:
\* every connection is written at most once and read at most once, every
\* connection but the last is closed, and writing and reading happen on the
\* open connection of the current attempt only.
C17_RetriesOnFreshConnection ==
    op = "Search" =>
        /\ \A i \in 1 .. Len(conns) :
              /\ conns[i].writes <= 1
              /\ conns[i].reads <= 1
              /\ i < Len(conns) => RoundTripFailed(conns[i])
        /\ pc \in {"write", "spawned", "select"} =>
              /\ conns[cur].open
              /\ conns[cur].recv = "none"
              /\ conns[cur].writes = (IF pc = "write" THEN 0 ELSE 1)
        /\ (/\ conns # <<>>
            /\ RoundTripFailed(conns[cur])
            /\ Len(dials) = attempt + 1
            /\ dials[Len(dials)] = "ok"
            /\ attempt < c.SearchRetries
            /\ ~ctxErr)
              => /\ pc = "sleep"
                 /\ timer = retryDelay(c, attempt)
                 /\ timer > 0
                 /\ Len(sleeps) = attempt + 1
        /\ (pc = "dial" /\ attempt > 0 /\ dials[attempt] = "ok")
              => /\ RoundTripFailed(conns[cur])
                 /\ Len(sleeps) = attempt

\* C17 witness: the first connection failed with a read I/O error and is
\* closed, one sleep was taken, and the second attempt is about to write on
\* a second, open connection.
C17_Witness ==
    /\ op = "Search"
    /\ pc = "write"
    /\ Len(conns) = 2
    /\ conns[1].recv = "io"
    /\ ~conns[1].open
    /\ conns[2].open
    /\ Len(sleeps) = 1

\* C18: cancellation is never retried.  Once the context is cancelled, a
\* retry loop that is in its backoff sleep starts no further attempt (no new
\* POST, no new dial), also when the cancellation arrives at the instant the
\* sleep ends: the only way out of the sleep is the return of the context's
\* error.
C18_NoAttemptAfterCancel ==
    [][(pc = "sleep" /\ cancelPc = "sleep") =>
          /\ pc' \notin {"post", "dial"}
          /\ pc' = "done" => result' = CtxError]_vars

\* C19: Search, cancelling the context while conn.WriteMessage is in flight
\* aborts the write at once: the only step out of a write in flight under a
\* cancelled context is searchOnce returning the context's error; the call
\* does not wait for the write to complete or to fail.
C19_CancelAbortsWrite ==
    [][(op = "Search" /\ pc = "write" /\ cancelPc = "write") =>
          /\ pc' \in {"write", "onceDone"}
          /\ pc' = "onceDone" =>
                /\ onceRet' = CtxError
                /\ conns'[cur].writes = 0]_vars

\* C20: IndexURL, when the content extractor returns an error for the URL
\* (page unreachable) the call does not fail with it: the URL is POSTed
\* without title and text and the call's outcome is that submission's.
C20_ExtractFailureStillSubmits ==
    (op = "IndexURL" /\ pc = "done" /\ result.cause = "unreachable") =>
        /\ result.kind # "extract"
        /\ posts # <<>>
        /\ ~posts[1].sent.hasTitle
        /\ ~posts[1].sent.hasText

\* --------------------------------------------------- functions on their own
\* The state in which a function is applied on its own to one of Args: a
\* client as NewClient returns it and no call in progress.
FnInit(name, Args) ==
    /\ configured = [Timeout |-> 2000, AddRetries |-> 0, SearchRetries |-> 0,
                     RetryBackoff |-> 0, MaxRetryBackoff |-> 0]
    /\ c = NewClient(configured)
    /\ op = name
    /\ pc = "call"
    /\ fnArg \in Args
    /\ fnRet = <<>>
    /\ calls = <<>>
    /\ ctxErr = FALSE
    /\ cancelPc = ""
    /\ attempt = 0
    /\ body = <<>>
    /\ posts = <<>>
    /\ sleeps = <<>>
    /\ timer = 0
    /\ result = NoResult
    /\ dials = <<>>
    /\ conns = <<>>
    /\ reader = "none"
    /\ readVal = "none"
    /\ resultCh = <<>>
    /\ sel = "none"
    /\ onceRet = NoResult

\* The function returns value.
FnCall(name, value) ==
    /\ op = name
    /\ pc = "call"
    /\ fnRet' = value
    /\ pc' = "ret"
    /\ UNCHANGED <<c, configured, op, ctxErr, cancelPc, attempt, sleeps, timer, result,
                   addVars, searchVars, fnArg, calls>>

FnReturned(name) == op = name /\ pc = "ret"

SeqsUpTo(S, n) == UNION { [1 .. k -> S] : k \in 0 .. n }

\* ------------------------------------------------------- parseSearchResults
\* A search response as the backend sends it: a JSON object that may have a
\* top-level "documents" key and a "results" wrapper with a "documents" key,
\* or bytes that do not decode.  Strings are Go strings; "" is the empty one.
MaxDocs == 2

SnippetDocs ==
    { [title |-> "T", url |-> "u", snippet |-> sn, text |-> tx, description |-> de] :
        sn \in {"", "s"}, tx \in {"", "t"}, de \in {"", "d"} }
Docs ==
    SnippetDocs \cup
        { [title |-> "", url |-> "v", snippet |-> " ", text |-> "t", description |-> ""] }
NestedDocs ==
    { [title |-> "N", url |-> "n", snippet |-> "", text |-> tx, description |-> "d"] :
        tx \in {"", "t"} }

AbsentKey == [present |-> FALSE, docs |-> <<>>]
KeyOver(D) == {AbsentKey} \cup { [present |-> TRUE, docs |-> l] : l \in SeqsUpTo(D, MaxDocs) }

SearchPayloads ==
    { [valid |-> TRUE, documents |-> t, results |-> n] :
        t \in KeyOver(Docs), n \in KeyOver(NestedDocs) }
    \cup { [valid |-> FALSE, documents |-> AbsentKey, results |-> AbsentKey] }

SearchLimits == -1 .. MaxDocs + 1

\* json.Unmarshal(body, &parsed): a key that is absent leaves its slice nil,
\* a key with an empty list gives an empty slice; both have length 0.
decodeResponse(payload) ==
    [err |-> ~payload.valid,
     Documents |-> IF payload.documents.present THEN payload.documents.docs ELSE <<>>,
     ResultsDocuments |-> IF payload.results.present THEN payload.results.docs ELSE <<>>]

\* documents := parsed.Documents; if len(documents) == 0 { documents =
\* parsed.Results.Documents }
selectDocuments(parsed) ==
    IF Len(parsed.Documents) = 0 THEN parsed.ResultsDocuments ELSE parsed.Documents

\* Mutant of resolveSnippet: description is preferred to text.
resolveSnippetDescriptionFirst(d) ==
    IF d.snippet # "" THEN d.snippet
    ELSE IF d.description # "" THEN d.description
    ELSE d.text

\* snippet := d.Snippet; if snippet == "" { d.Text }; if snippet == "" {
\* d.Description }
resolveSnippet(d) ==
    LET s1 == d.snippet
        s2 == IF s1 = "" THEN d.text ELSE s1
    IN  IF s2 = "" THEN d.description ELSE s2

\* SearchResult{Title: d.Title, URL: d.URL, Snippet: snippet}
toSearchResult(d) == [Title |-> d.title, URL |-> d.url, Snippet |-> resolveSnippet(d)]

\* Mutant of truncateToLimit: a limit of 0 truncates to nothing.
truncateToLimitZeroToo(out, limit) ==
    IF limit >= 0 /\ Len(out) > limit THEN SubSeq(out, 1, limit) ELSE out

\* if limit > 0 && len(out) > limit { out = out[:limit] }
truncateToLimit(out, limit) ==
    IF limit > 0 /\ Len(out) > limit THEN SubSeq(out, 1, limit) ELSE out

parseSearchResults(payload, limit) ==
    LET parsed == decodeResponse(payload)
        documents == selectDocuments(parsed)
        out == [i \in 1 .. Len(documents) |-> toSearchResult(documents[i])]
    IN  IF parsed.err
        THEN [err |-> TRUE, results |-> <<>>]
        ELSE [err |-> FALSE, results |-> truncateToLimit(out, limit)]

InitParse ==
    FnInit("parseSearchResults",
           { [body |-> p, limit |-> l] : p \in SearchPayloads, l \in SearchLimits })

CallParseSearchResults ==
    FnCall("parseSearchResults", parseSearchResults(fnArg.body, fnArg.limit))

NextParse == CallParseSearchResults

SpecParse == InitParse /\ [][NextParse]_vars

\* ------------------------------------------ claims about parseSearchResults
ParseDecoded == FnReturned("parseSearchResults") /\ fnArg.body.valid

\* The documents parseSearchResults normalised for the payload it was given.
ParsedDocuments == selectDocuments(decodeResponse(fnArg.body))

\* C21: the document list is the one under the top-level key whenever that
\* key is present in the payload, also when its list is empty, and the one
\* of the nested wrapper only when there is no top-level list; a payload with
\* only the nested form gives the same results as the same documents at top
\* level.
C21_TopLevelKeyWins ==
    ParseDecoded =>
        LET p == fnArg.body
            chosen == IF p.documents.present THEN p.documents.docs ELSE p.results.docs
            atTop == [valid |-> TRUE, documents |-> p.results, results |-> AbsentKey]
        IN  /\ ~fnRet.err
            /\ fnRet.results =
                 truncateToLimit([i \in 1 .. Len(chosen) |-> toSearchResult(chosen[i])],
                                 fnArg.limit)
            /\ ~p.documents.present =>
                 fnRet = parseSearchResults(atTop, fnArg.limit)

\* C22: each result's snippet is the first non-empty one of the document's
\* snippet, text and description, in that order; when all three are empty the
\* snippet is empty and there is no error; title and url are copied unchanged.
C22_SnippetPriority ==
    ParseDecoded =>
        /\ ~fnRet.err
        /\ \A i \in 1 .. Len(fnRet.results) :
             LET d == ParsedDocuments[i]
                 r == fnRet.results[i]
             IN  /\ r.Title = d.title
                 /\ r.URL = d.url
                 /\ d.snippet # "" => r.Snippet = d.snippet
                 /\ (d.snippet = "" /\ d.text # "") => r.Snippet = d.text
                 /\ (d.snippet = "" /\ d.text = "") => r.Snippet = d.description

\* C22 witness: a document without snippet but with text and description was
\* given the text, next to one with all three empty.
C22_Witness ==
    /\ ParseDecoded
    /\ Len(fnRet.results) = 2
    /\ ParsedDocuments[1].snippet = ""
    /\ ParsedDocuments[1].text = "t"
    /\ ParsedDocuments[1].description = "d"
    /\ fnRet.results[1].Snippet = "t"
    /\ ParsedDocuments[2].snippet = ""
    /\ ParsedDocuments[2].text = ""
    /\ ParsedDocuments[2].description = ""
    /\ fnRet.results[2].Snippet = ""

\* C23: with limit <= 0 there is one result per document, in payload order;
\* with limit > 0 there are exactly the first min(limit, n) results, in
\* payload order.
C23_LimitTruncates ==
    ParseDecoded =>
        LET n == Len(ParsedDocuments)
            k == IF fnArg.limit <= 0 THEN n ELSE minOf(fnArg.limit, n)
        IN  /\ Len(fnRet.results) = k
            /\ \A i \in 1 .. k : fnRet.results[i] = toSearchResult(ParsedDocuments[i])

\* C23 witness: two documents and limit 1 gave the first result only.
C23_Witness ==
    /\ ParseDecoded
    /\ fnArg.limit = 1
    /\ Len(ParsedDocuments) = 2
    /\ ParsedDocuments[1].url # ParsedDocuments[2].url
    /\ Len(fnRet.results) = 1
    /\ fnRet.results[1].URL = ParsedDocuments[1].url

\* ------------------------------------------------------ endpoint resolution
\* A URL string is a sequence of tokens: a scheme word, "://", a host name,
\* "/" and path segments, "?q" (a query), "?" (the mark of an empty query),
\* "#f" (a fragment), " " (white space).
SchemeWords == {"http", "https", "ws", "wss", "ftp"}
AfterHost == {<<>>, <<"/">>, <<"/", "api">>, <<"/", "api", "/">>, <<"?q">>,
              <<"/", "api", "#f">>, <<"/", "api", "?">>,
              <<"/", "api", "/", "/", "?q", "#f">>}
BaseURLs ==
    { <<w, "://", "host">> \o t : w \in SchemeWords, t \in AfterHost }
    \cup { <<>>, <<" ">>, <<"host">>, <<"http", "://">>, <<"wss", "://", "/", "api">>,
           <<" ", "http", "://", "host">> }
EndpointPaths ==
    { <<"/", "search">>, <<"search">>, <<>>, <<" ">>, <<" ", "/", "add", " ">>, <<"/">> }

\* The path of a URL: its tokens up to the query or the fragment.
RECURSIVE pathOf(_)
pathOf(s) ==
    IF s = <<>> \/ Head(s) \in {"?q", "?", "#f"} THEN <<>> ELSE <<Head(s)>> \o pathOf(Tail(s))

\* url.Parse: scheme before "://", host up to the path, then path, query and
\* fragment; ForceQuery records a "?" with nothing behind it.  A string
\* without "://" is all path; one whose first segment holds the colon
\* elsewhere does not parse.
parseURL(raw) ==
    LET sep == { i \in 1 .. Len(raw) : raw[i] = "://" }
        rest == SubSeq(raw, 3, Len(raw))
        hasHost == rest # <<>> /\ Head(rest) \notin {"/", "?q", "?", "#f"}
        afterHost == IF hasHost THEN Tail(rest) ELSE rest
    IN  IF sep = {}
        THEN [err |-> FALSE, Scheme |-> "", Host |-> "", Path |-> pathOf(raw),
              RawQuery |-> "", ForceQuery |-> FALSE, Fragment |-> ""]
        ELSE IF sep # {2} \/ raw[1] \notin SchemeWords
        THEN [err |-> TRUE, Scheme |-> "", Host |-> "", Path |-> <<>>,
              RawQuery |-> "", ForceQuery |-> FALSE, Fragment |-> ""]
        ELSE [err |-> FALSE, Scheme |-> raw[1],
              Host |-> IF hasHost THEN Head(rest) ELSE "",
              Path |-> pathOf(afterHost),
              RawQuery |-> IF \E k \in 1 .. Len(afterHost) : afterHost[k] = "?q"
                           THEN "q" ELSE "",
              ForceQuery |-> \E k \in 1 .. Len(afterHost) : afterHost[k] = "?",
              Fragment |-> IF \E k \in 1 .. Len(afterHost) : afterHost[k] = "#f"
                           THEN "f" ELSE ""]

\* u.String()
urlString(u) ==
    <<u.Scheme, "://", u.Host>> \o u.Path
        \o (IF u.RawQuery # "" THEN <<"?q">> ELSE IF u.ForceQuery THEN <<"?">> ELSE <<>>)
        \o (IF u.Fragment # "" THEN <<"#f">> ELSE <<>>)

\* c.validate(): "" when the base URL is accepted, else the error.
validate(BaseURL) ==
    LET parsed == parseURL(BaseURL)
    IN  IF TrimSpace(BaseURL) = <<>> THEN "base URL is required"
        ELSE IF parsed.err THEN "invalid base URL"
        ELSE IF parsed.Scheme = "" \/ parsed.Host = ""
        THEN "base URL must include scheme and host"
        ELSE ""

\* strings.TrimRight(basePath, "/")
RECURSIVE trimRightSlashes(_)
trimRightSlashes(s) ==
    IF s # <<>> /\ s[Len(s)] = "/" THEN trimRightSlashes(SubSeq(s, 1, Len(s) - 1)) ELSE s

\* Mutant of joinURLPath: the two paths are put one after the other.
joinURLPathConcat(basePath, path) == basePath \o path

joinURLPath(basePath, path) ==
    IF basePath = <<>> \/ basePath = <<"/">> THEN path
    ELSE trimRightSlashes(basePath) \o path

\* Mutant of schemeFor: the streaming scheme is always the plain one.
schemeForPlainStreaming(scheme, websocketURL) ==
    IF websocketURL
    THEN (IF scheme \in {"http", "https"} THEN "ws" ELSE scheme)
    ELSE (IF scheme = "ws" THEN "http" ELSE IF scheme = "wss" THEN "https" ELSE scheme)

\* The two switches on u.Scheme in endpoint.
schemeFor(scheme, websocketURL) ==
    IF websocketURL
    THEN (IF scheme = "http" THEN "ws" ELSE IF scheme = "https" THEN "wss" ELSE scheme)
    ELSE (IF scheme = "ws" THEN "http" ELSE IF scheme = "wss" THEN "https" ELSE scheme)

\* c.endpoint(path, websocketURL)
endpoint(BaseURL, path, websocketURL) ==
    LET u == parseURL(BaseURL)
        p0 == TrimSpace(path)
        p1 == IF p0 = <<>> THEN <<"/">> ELSE p0
        p == IF Head(p1) # "/" THEN <<"/">> \o p1 ELSE p1
    IN  IF u.err THEN [err |-> "parse base URL", url |-> <<>>]
        ELSE IF u.Scheme \notin {"http", "https", "ws", "wss"}
        THEN [err |-> "unsupported URL scheme", url |-> <<>>]
        ELSE [err |-> "",
              url |-> urlString([u EXCEPT !.Scheme = schemeFor(u.Scheme, websocketURL),
                                          !.RawQuery = "",
                                          !.Fragment = "",
                                          !.Path = joinURLPath(u.Path, p)])]

InitEndpoint ==
    FnInit("endpoint",
           { [BaseURL |-> b, path |-> q, websocketURL |-> w] :
               b \in BaseURLs, q \in EndpointPaths, w \in BOOLEAN })

\* NewClient: c.validate() rejects the base URL or the client is returned.
CallNewClient ==
    /\ op = "endpoint"
    /\ pc = "call"
    /\ fnRet' = [err |-> validate(fnArg.BaseURL), url |-> <<>>]
    /\ pc' = IF validate(fnArg.BaseURL) = "" THEN "constructed" ELSE "rejected"
    /\ UNCHANGED <<c, configured, op, ctxErr, cancelPc, attempt, sleeps, timer, result,
                   addVars, searchVars, fnArg, calls>>

\* IndexURL / Search on the client returned: prepare(), then c.endpoint.
CallEndpoint ==
    /\ op = "endpoint"
    /\ pc = "constructed"
    /\ fnRet' = endpoint(fnArg.BaseURL, fnArg.path, fnArg.websocketURL)
    /\ pc' = "ret"
    /\ UNCHANGED <<c, configured, op, ctxErr, cancelPc, attempt, sleeps, timer, result,
                   addVars, searchVars, fnArg, calls>>

NextEndpoint == CallNewClient \/ CallEndpoint

SpecEndpoint == InitEndpoint /\ [][NextEndpoint]_vars

\* ------------------------------------------------ claims about the endpoint
SupportedSchemes == {"http", "https", "ws", "wss"}
SecureScheme(scheme) == scheme \in {"https", "wss"}

\* C24: for a base with scheme http, https, ws or wss, the streaming
\* transport maps http to ws and https to wss and leaves ws and wss, the
\* request/response transport maps ws to http and wss to https and leaves
\* http and https, so the secure or plain variant is preserved; base
\* https://host with path /search and streaming gives wss://host/search.
C24_SchemeMapping ==
    (FnReturned("endpoint") /\ parseURL(fnArg.BaseURL).Scheme \in SupportedSchemes) =>
        LET from == parseURL(fnArg.BaseURL).Scheme
            to == parseURL(fnRet.url).Scheme
        IN  /\ fnRet.err = ""
            /\ fnArg.websocketURL =>
                 to = (CASE from = "http" -> "ws" [] from = "https" -> "wss"
                         [] OTHER -> from)
            /\ ~fnArg.websocketURL =>
                 to = (CASE from = "ws" -> "http" [] from = "wss" -> "https"
                         [] OTHER -> from)
            /\ SecureScheme(to) = SecureScheme(from)
            /\ (/\ fnArg.BaseURL = <<"https", "://", "host">>
                /\ fnArg.path = <<"/", "search">>
                /\ fnArg.websocketURL)
                  => fnRet.url = <<"wss", "://", "host", "/", "search">>

\* C24 witness: https://host, /search, streaming gave wss://host/search.
C24_Witness ==
    /\ FnReturned("endpoint")
    /\ fnArg.BaseURL = <<"https", "://", "host">>
    /\ fnArg.path = <<"/", "search">>
    /\ fnArg.websocketURL
    /\ fnRet = [err |-> "", url |-> <<"wss", "://", "host", "/", "search">>]

\* C25: NewClient rejects a base address that is empty, has no host, or has
\* a scheme other than http, https, ws and wss: no client is returned for
\* such a configuration.
C25_ConstructionValidates ==
    (op = "endpoint" /\ pc = "constructed") =>
        /\ TrimSpace(fnArg.BaseURL) # <<>>
        /\ parseURL(fnArg.BaseURL).Host # ""
        /\ parseURL(fnArg.BaseURL).Scheme \in SupportedSchemes

EndpointResolved == FnReturned("endpoint") /\ fnRet.err = ""

\* s with a slash put in front when it does not start with one.
WithLeadingSlash(s) == IF s = <<>> \/ Head(s) # "/" THEN <<"/">> \o s ELSE s

\* s is b without its trailing slashes.
IsWithoutTrailingSlashes(s, b) ==
    /\ Len(s) <= Len(b)
    /\ s = SubSeq(b, 1, Len(s))
    /\ \A k \in Len(s) + 1 .. Len(b) : b[k] = "/"
    /\ s # <<>> => s[Len(s)] # "/"

\* The URL returned has no query string and no fragment, and its path is
\* rel behind the base path without its trailing slashes, or rel alone when
\* the base path is empty or "/".
EndpointJoins(rel) ==
    LET got == parseURL(fnRet.url)
        basePath == parseURL(fnArg.BaseURL).Path
    IN  /\ ~got.err
        /\ got.RawQuery = ""
        /\ got.Fragment = ""
        /\ basePath \in {<<>>, <<"/">>} => got.Path = rel
        /\ \E k \in 0 .. Len(got.Path) :
              /\ IsWithoutTrailingSlashes(SubSeq(got.Path, 1, k), basePath)
              /\ SubSeq(got.Path, k + 1, Len(got.Path)) = rel

\* C35 as stated: the relative path is joined as given, but for a leading
\* slash put in front when it has none.
C35_EndpointJoinsPathAsGiven ==
    EndpointResolved => EndpointJoins(WithLeadingSlash(fnArg.path))

\* C35, amended: the relative path joined is the one given with the white
\* space around it removed and a leading slash put in front when it has
\* none ("/" for a blank one).
C35_EndpointJoinsTrimmedPath ==
    EndpointResolved => EndpointJoins(WithLeadingSlash(TrimSpace(fnArg.path)))

\* A base with a path ending in slashes, a query and a fragment, and a
\* relative path without leading slash but with white space around it.
C35_Witness ==
    /\ EndpointResolved
    /\ fnArg.BaseURL = <<"http", "://", "host", "/", "api", "/", "/", "?q", "#f">>
    /\ fnArg.path = <<" ", "/", "add", " ">>
    /\ fnRet.url = <<"http", "://", "host", "/", "api", "/", "add">>

\* ------------------------------------------- concurrent calls on one client
\* The fields of the client are plain struct fields; every call starts with
\* prepare(), whose applyDefaults is a list of guarded assignments to them:
\* statement k tests a condition on the fields and, when it holds, assigns
\* one field.  The test and the assignment are separate memory accesses, and
\* nothing orders the accesses of one call with those of another.
CallIds == {1, 2}
DefaultsStatements == 8

stmtField(k) ==
    CASE k = 1 -> "Timeout"
      [] k \in {2, 4} -> "AddRetries"
      [] k \in {3, 5} -> "SearchRetries"
      [] k = 6 -> "RetryBackoff"
      [] OTHER -> "MaxRetryBackoff"

stmtCond(cl, k) ==
    CASE k = 1 -> cl.Timeout <= 0
      [] k = 2 -> cl.AddRetries < 0
      [] k = 3 -> cl.SearchRetries < 0
      [] k = 4 -> cl.AddRetries = 0
      [] k = 5 -> cl.SearchRetries = 0
      [] k = 6 -> cl.RetryBackoff <= 0
      [] k = 7 -> cl.MaxRetryBackoff <= 0
      [] OTHER -> cl.MaxRetryBackoff < cl.RetryBackoff

stmtValue(cl, k) ==
    CASE k = 1 -> defaultTimeout
      [] k \in {2, 3} -> 0
      [] k = 4 -> defaultAddRetries
      [] k = 5 -> defaultSearchRetries
      [] k = 6 -> defaultRetryBackoff
      [] k = 7 -> defaultMaxRetryBackoff
      [] OTHER -> cl.RetryBackoff

IdleCall == [op |-> "idle", pc |-> "idle", k |-> 0, budget |-> 0]

\* The client the goroutines share: as NewClient returned it, or with fields
\* assigned since (among them a RetryBackoff above the default cap with no
\* MaxRetryBackoff).
InitShared ==
    /\ configured \in RawConfigs \cup
          {[Timeout |-> 2000, AddRetries |-> 1, SearchRetries |-> 1,
            RetryBackoff |-> 2 * defaultMaxRetryBackoff, MaxRetryBackoff |-> 0]}
    /\ c \in {NewClient(configured), configured}
    /\ calls = [i \in CallIds |-> IdleCall]
    /\ op = "concurrent"
    /\ pc = "idle"
    /\ fnArg = <<>>
    /\ fnRet = <<>>
    /\ ctxErr = FALSE
    /\ cancelPc = ""
    /\ attempt = 0
    /\ body = <<>>
    /\ posts = <<>>
    /\ sleeps = <<>>
    /\ timer = 0
    /\ result = NoResult
    /\ dials = <<>>
    /\ conns = <<>>
    /\ reader = "none"
    /\ readVal = "none"
    /\ resultCh = <<>>
    /\ sel = "none"
    /\ onceRet = NoResult

SharedUnchanged ==
    UNCHANGED <<configured, op, pc, ctxErr, cancelPc, attempt, sleeps, timer, result,
                addVars, searchVars, fnArg, fnRet>>

\* A goroutine calls IndexURL or Search: prepare() begins.
CallStarts ==
    /\ \E i \in CallIds, o \in {"IndexURL", "Search"} :
        /\ calls[i].pc = "idle"
        /\ calls' = [calls EXCEPT ![i] = [op |-> o, pc |-> "test", k |-> 1, budget |-> 0]]
    /\ UNCHANGED c
    /\ SharedUnchanged

\* applyDefaults evaluates the condition of statement k (it reads the fields).
DefaultTested ==
    /\ \E i \in CallIds :
        /\ calls[i].pc = "test"
        /\ calls' = [calls EXCEPT ![i] =
                        IF stmtCond(c, calls[i].k) THEN [@ EXCEPT !.pc = "write"]
                        ELSE IF calls[i].k = DefaultsStatements THEN [@ EXCEPT !.pc = "loop"]
                        ELSE [@ EXCEPT !.k = @ + 1]]
    /\ UNCHANGED c
    /\ SharedUnchanged

\* applyDefaults assigns the field of statement k.
DefaultWritten ==
    /\ \E i \in CallIds :
        /\ calls[i].pc = "write"
        /\ c' = [c EXCEPT ![stmtField(calls[i].k)] = stmtValue(c, calls[i].k)]
        /\ calls' = [calls EXCEPT ![i] =
                        IF calls[i].k = DefaultsStatements THEN [@ EXCEPT !.pc = "loop"]
                        ELSE [@ EXCEPT !.pc = "test", !.k = @ + 1]]
    /\ SharedUnchanged

\* The retry loop reads its budget from the client (attempt < c.AddRetries,
\* attempt < c.SearchRetries) and the call ends.
BudgetRead ==
    /\ \E i \in CallIds :
        /\ calls[i].pc = "loop"
        /\ calls' = [calls EXCEPT ![i] =
                        [@ EXCEPT !.pc = "done",
                                  !.budget = IF calls[i].op = "IndexURL"
                                             THEN c.AddRetries ELSE c.SearchRetries]]
    /\ UNCHANGED c
    /\ SharedUnchanged

NextShared == CallStarts \/ DefaultTested \/ DefaultWritten \/ BudgetRead

SpecShared == InitShared /\ [][NextShared]_vars

\* C26: no shared mutable state between concurrent calls: while a call is in
\* progress (prepare included) no other call writes a field of the client,
\* which the first reads.
C26_NoSharedWrites ==
    op = "concurrent" =>
        \A i \in CallIds, j \in CallIds :
            (i # j /\ calls[i].pc = "write") => calls[j].pc \in {"idle", "done"}

\* C33: once a call has run prepare/applyDefaults, whatever the configured
\* backoff values (zero, negative, cap below the initial delay, assigned
\* after construction), RetryBackoff > 0 and RetryBackoff <= MaxRetryBackoff
\* hold when the call enters its retry loop.
C33_BackoffFieldsPrepared ==
    op = "concurrent" =>
        \A i \in CallIds :
            calls[i].pc = "loop" =>
                /\ c.RetryBackoff > 0
                /\ c.RetryBackoff <= c.MaxRetryBackoff

\* ------------------------------------------------ matrix: forwardIfMessage
\* The matrix client's fields that forwardIfMessage reads: the room policy
\* (nil, or an AllowedRooms set) and the bot's user id ("" when unknown).
NoPolicy == [set |-> FALSE, rooms |-> {}]
MatrixClients ==
    { [roomPolicy |-> rp, botUserID |-> b] :
        rp \in {NoPolicy, [set |-> TRUE, rooms |-> {}], [set |-> TRUE, rooms |-> {"!allowed"}]},
        b \in {"", "@bot"} }

NilEvent ==
    [nil |-> TRUE, Type |-> "", RoomID |-> "", ID |-> "", Sender |-> "", MsgType |-> "",
     Body |-> <<>>]
MatrixEvents ==
    {NilEvent} \cup
    { [nil |-> FALSE, Type |-> t, RoomID |-> r, ID |-> "$1", Sender |-> u, MsgType |-> m,
       Body |-> b] :
        t \in {"m.room.message", "m.reaction"}, r \in {"!allowed", "!blocked"},
        u \in {"@bot", "@alice"}, m \in {"m.text", "m.image"},
        b \in {<<>>, <<" ">>, <<"h">>, <<" ", "h", " ">>} }

\* AllowedRooms.Allowed
Allowed(rooms, roomID) == IF Cardinality(rooms) = 0 THEN FALSE ELSE roomID \in rooms

\* Mutant of policyBlocks: no room is ever blocked.
policyBlocksNever(cl, roomID) == FALSE

\* c.roomPolicy != nil && !c.roomPolicy.Allowed(ev.RoomID)
policyBlocks(cl, roomID) == cl.roomPolicy.set /\ ~Allowed(cl.roomPolicy.rooms, roomID)

\* content.MsgType.IsText()
IsText(msgType) == msgType = "m.text"

\* forwardIfMessage(ctx, ev): the calls of c.handler.HandleMatrixMessage it
\* makes (the handler is never nil in a client NewClient returned).
forwardIfMessage(cl, ev) ==
    IF ev.nil THEN <<>>
    ELSE IF cl.botUserID # "" /\ ev.Sender = cl.botUserID THEN <<>>
    ELSE IF policyBlocks(cl, ev.RoomID) THEN <<>>
    ELSE IF ev.Type # "m.room.message" THEN <<>>
    ELSE IF ~IsText(ev.MsgType) THEN <<>>
    ELSE IF TrimSpace(ev.Body) = <<>> THEN <<>>
    ELSE << [RoomID |-> ev.RoomID, EventID |-> ev.ID, Sender |-> ev.Sender,
             Body |-> TrimSpace(ev.Body)] >>

InitForward ==
    FnInit("forwardIfMessage",
           { [client |-> cl, ev |-> e] : cl \in MatrixClients, e \in MatrixEvents })

CallForwardIfMessage ==
    FnCall("forwardIfMessage", forwardIfMessage(fnArg.client, fnArg.ev))

SpecForward == InitForward /\ [][CallForwardIfMessage]_vars

\* C27: with an allowlist and the bot's user id configured, the handler is
\* invoked exactly for the events that come from a room in the allowlist,
\* are not authored by the bot, are text messages and have a body that is
\* not empty after trimming; it is invoked once, with the trimmed body.
C27_ForwardsOnlyAllowedText ==
    (/\ FnReturned("forwardIfMessage")
     /\ fnArg.client.roomPolicy.set
     /\ fnArg.client.botUserID # "") =>
        LET ev == fnArg.ev
            wanted == /\ ~ev.nil
                      /\ ev.RoomID \in fnArg.client.roomPolicy.rooms
                      /\ ev.Sender # fnArg.client.botUserID
                      /\ ev.Type = "m.room.message"
                      /\ ev.MsgType = "m.text"
                      /\ TrimSpace(ev.Body) # <<>>
        IN  /\ (fnRet # <<>>) <=> wanted
            /\ fnRet # <<>> =>
                 /\ Len(fnRet) = 1
                 /\ fnRet[1].Body = TrimSpace(ev.Body)
                 /\ Head(fnRet[1].Body) # " "
                 /\ fnRet[1].RoomID = ev.RoomID
                 /\ fnRet[1].Sender = ev.Sender

\* C27 witness: "  h  " from alice in the allowed room was forwarded as "h".
C27_Witness ==
    /\ FnReturned("forwardIfMessage")
    /\ fnArg.client.roomPolicy.rooms = {"!allowed"}
    /\ fnArg.client.botUserID = "@bot"
    /\ fnArg.ev.Body = <<" ", "h", " ">>
    /\ fnRet = << [RoomID |-> "!allowed", EventID |-> "$1", Sender |-> "@alice",
                   Body |-> <<"h">>] >>

\* ------------------------------------------- matrix: GetRecentTextMessages
\* The room history as the homeserver pages it, newest first: the page served
\* for token "END" and the page served for token "t1".  An event is a text
\* message (parseHistoryTextEvent accepts it) or not, and has a timestamp and
\* a body.
MaxChunk == 2
MaxRecent == 2

HistoryEvents ==
    { [text |-> FALSE, ts |-> 2, Body |-> <<"a">>],
      [text |-> TRUE, ts |-> 0, Body |-> <<"a">>],
      [text |-> TRUE, ts |-> 1, Body |-> <<"a">>],
      [text |-> TRUE, ts |-> 2, Body |-> <<" ", "a">>],
      [text |-> TRUE, ts |-> 2, Body |-> <<" ">>],
      [text |-> TRUE, ts |-> 0, Body |-> <<" ">>] }

HistoryServers ==
    { [END |-> [err |-> FALSE, Chunk |-> c1, End |-> e1],
       t1 |-> [err |-> x2, Chunk |-> c2, End |-> e2]] :
        c1 \in SeqsUpTo(HistoryEvents, MaxChunk), e1 \in {"", "END", "t1"},
        x2 \in BOOLEAN, c2 \in SeqsUpTo(HistoryEvents, 1), e2 \in {"", "t1"} }

\* Mutant of isBeforeSince: no event counts as older than since.
isBeforeSinceNever(ts, since) == FALSE

\* ts.Before(since)
isBeforeSince(ts, since) == ts < since

\* The loop over resp.Chunk: the messages collected and whether an event
\* older than since was met.
RECURSIVE scanChunk(_, _, _, _)
scanChunk(chunk, since, max, out) ==
    IF chunk = <<>> THEN [out |-> out, reachedBeforeSince |-> FALSE]
    ELSE LET ev == Head(chunk)
             grown == Append(out, [Body |-> TrimSpace(ev.Body), Timestamp |-> ev.ts])
         IN  IF ~ev.text THEN scanChunk(Tail(chunk), since, max, out)
             ELSE IF isBeforeSince(ev.ts, since) THEN [out |-> out, reachedBeforeSince |-> TRUE]
             ELSE IF TrimSpace(ev.Body) = <<>> THEN scanChunk(Tail(chunk), since, max, out)
             ELSE IF Len(grown) >= max THEN [out |-> grown, reachedBeforeSince |-> FALSE]
             ELSE scanChunk(Tail(chunk), since, max, grown)

\* The loop "for len(out) < max": froms are the tokens requested so far.
RECURSIVE recentLoop(_, _, _, _, _, _)
recentLoop(server, since, max, from, out, froms) ==
    IF Len(out) >= max THEN [err |-> "", out |-> out, froms |-> froms]
    ELSE LET resp == server[from]
             asked == Append(froms, from)
             scanned == scanChunk(resp.Chunk, since, max, out)
         IN  IF resp.err THEN [err |-> "fetch room messages", out |-> <<>>, froms |-> asked]
             ELSE IF Len(resp.Chunk) = 0 THEN [err |-> "", out |-> out, froms |-> asked]
             ELSE IF Len(scanned.out) >= max \/ scanned.reachedBeforeSince
             THEN [err |-> "", out |-> scanned.out, froms |-> asked]
             ELSE IF resp.End = "" \/ resp.End = from
             THEN [err |-> "", out |-> scanned.out, froms |-> asked]
             ELSE recentLoop(server, since, max, resp.End, scanned.out, asked)

GetRecentTextMessages(server, since, max) ==
    IF max <= 0 THEN [err |-> "max must be greater than zero", out |-> <<>>, froms |-> <<>>]
    ELSE recentLoop(server, since, max, "END", <<>>, <<>>)

InitRecent ==
    FnInit("GetRecentTextMessages",
           { [server |-> sv, since |-> t, max |-> m] :
               sv \in HistoryServers, t \in {1, 2}, m \in 0 .. MaxRecent })

CallGetRecentTextMessages ==
    FnCall("GetRecentTextMessages",
           GetRecentTextMessages(fnArg.server, fnArg.since, fnArg.max))

SpecRecent == InitRecent /\ [][CallGetRecentTextMessages]_vars

RecentReturned == FnReturned("GetRecentTextMessages") /\ fnRet.err = ""

\* The events of the pages requested, in the order they were served.
RECURSIVE ServedEvents(_, _)
ServedEvents(server, froms) ==
    IF froms = <<>> THEN <<>>
    ELSE server[Head(froms)].Chunk \o ServedEvents(server, Tail(froms))

OlderText(ev) == ev.text /\ ev.ts < fnArg.since

RecentText(ev) == ev.text /\ ev.ts >= fnArg.since /\ TrimSpace(ev.Body) # <<>>

\* The served events ahead of the first text event older than since.
BeforeFirstOlder(evs) ==
    LET older == { i \in 1 .. Len(evs) : OlderText(evs[i]) }
        stop == IF older = {} THEN Len(evs) + 1
                ELSE CHOOSE i \in older : \A j \in older : i <= j
    IN  SubSeq(evs, 1, stop - 1)

CollectedFrom(evs) ==
    LET kept == SelectSeq(BeforeFirstOlder(evs), RecentText)
    IN  [i \in 1 .. minOf(fnArg.max, Len(kept)) |->
            [Body |-> TrimSpace(kept[i].Body), Timestamp |-> kept[i].ts]]

\* C28: GetRecentTextMessages(since, max) returns at most max messages, each
\* a text message with a non-empty body and a timestamp not before since; it
\* asks for the page at token END first and then for the End token of each
\* page while fewer than max messages are collected, and it stops at the
\* first text event older than since: the result is the first max recent
\* text messages served ahead of that event, and no page is asked for after
\* the page that holds it.
C28_RecentMessagesBounded ==
    RecentReturned =>
        LET out == fnRet.out
            froms == fnRet.froms
            server == fnArg.server
            last == server[froms[Len(froms)]]
        IN  /\ Len(out) <= fnArg.max
            /\ \A i \in 1 .. Len(out) :
                /\ out[i].Body # <<>>
                /\ out[i].Timestamp >= fnArg.since
            /\ froms # <<>> /\ froms[1] = "END"
            /\ \A k \in 2 .. Len(froms) : froms[k] = server[froms[k - 1]].End
            /\ \A k \in 1 .. Len(froms) - 1 :
                /\ \A i \in 1 .. Len(server[froms[k]].Chunk) :
                    ~OlderText(server[froms[k]].Chunk[i])
                /\ Len(CollectedFrom(ServedEvents(server, SubSeq(froms, 1, k)))) < fnArg.max
            /\ \/ Len(out) >= fnArg.max
               \/ \E i \in 1 .. Len(last.Chunk) : OlderText(last.Chunk[i])
               \/ last.Chunk = <<>>
               \/ last.End \in {"", froms[Len(froms)]}
            /\ out = CollectedFrom(ServedEvents(server, froms))

\* A call that went on to the second page, collected a message from each
\* page and stopped at an older text event.
C28_Witness ==
    /\ RecentReturned
    /\ fnRet.froms = <<"END", "t1">>
    /\ fnArg.max = 2
    /\ Len(fnRet.out) = 1
    /\ \E i \in 1 .. Len(fnArg.server.t1.Chunk) : OlderText(fnArg.server.t1.Chunk[i])

\* ------------------------------------- summarizer: bucketMessagesByProximity
\* A timestamp is the zero time.Time or an instant t; the zero time lies
\* before every instant, further away than any duration can express.
MaxMessages == 3

Timestamps ==
    {[zero |-> TRUE, t |-> 0]} \cup { [zero |-> FALSE, t |-> t] : t \in {1, 2, 4} }

BucketMessages == { [Body |-> b, Timestamp |-> ts] : b \in {"a", "b"}, ts \in Timestamps }

\* Time.Before
timeBefore(a, b) ==
    IF a.zero THEN ~b.zero ELSE ~b.zero /\ a.t < b.t

\* Time.Sub, which saturates at the largest and smallest duration.
timeSub(a, b) ==
    IF a.zero = b.zero THEN (IF a.zero THEN 0 ELSE a.t - b.t)
    ELSE IF b.zero THEN MaxDuration ELSE MinDuration

\* sort.SliceStable by Timestamp.Before: msg goes behind every message that
\* is not after it.
RECURSIVE insertStable(_, _)
insertStable(sorted, msg) ==
    IF sorted = <<>> THEN <<msg>>
    ELSE IF timeBefore(msg.Timestamp, sorted[Len(sorted)].Timestamp)
    THEN Append(insertStable(SubSeq(sorted, 1, Len(sorted) - 1), msg), sorted[Len(sorted)])
    ELSE Append(sorted, msg)

RECURSIVE sortStable(_)
sortStable(messages) ==
    IF messages = <<>> THEN <<>>
    ELSE insertStable(sortStable(SubSeq(messages, 1, Len(messages) - 1)),
                      messages[Len(messages)])

\* Mutant of gapExceeds: a gap of exactly maxGap splits too.
gapReaches(msg, prev, maxGap) ==
    /\ ~prev.Timestamp.zero
    /\ ~msg.Timestamp.zero
    /\ timeSub(msg.Timestamp, prev.Timestamp) >= maxGap

\* !prev.Timestamp.IsZero() && !msg.Timestamp.IsZero() &&
\* msg.Timestamp.Sub(prev.Timestamp) > maxGap
gapExceeds(msg, prev, maxGap) ==
    /\ ~prev.Timestamp.zero
    /\ ~msg.Timestamp.zero
    /\ timeSub(msg.Timestamp, prev.Timestamp) > maxGap

\* The loop over sorted, with the buckets closed so far and the open one.
RECURSIVE bucketLoop(_, _, _, _, _)
bucketLoop(sorted, maxGap, maxBucketSize, buckets, current) ==
    IF sorted = <<>>
    THEN (IF Len(current) > 0 THEN Append(buckets, current) ELSE buckets)
    ELSE LET msg == Head(sorted)
             prev == current[Len(current)]
             startNewBucket ==
                 \/ Len(current) >= maxBucketSize
                 \/ gapExceeds(msg, prev, maxGap)
         IN  IF Len(current) = 0
             THEN bucketLoop(Tail(sorted), maxGap, maxBucketSize, buckets, <<msg>>)
             ELSE IF startNewBucket
             THEN bucketLoop(Tail(sorted), maxGap, maxBucketSize,
                             Append(buckets, current), <<msg>>)
             ELSE bucketLoop(Tail(sorted), maxGap, maxBucketSize,
                             buckets, Append(current, msg))

bucketMessagesByProximity(messages, maxGap, maxBucketSize) ==
    IF Len(messages) = 0 \/ maxBucketSize <= 0 THEN <<>>
    ELSE bucketLoop(sortStable(messages), maxGap, maxBucketSize, <<>>, <<>>)

InitBuckets ==
    FnInit("bucketMessagesByProximity",
           { [messages |-> ms, maxGap |-> g, maxBucketSize |-> n] :
               ms \in SeqsUpTo(BucketMessages, MaxMessages),
               g \in {1, 2}, n \in 0 .. MaxMessages })

CallBucketMessagesByProximity ==
    FnCall("bucketMessagesByProximity",
           bucketMessagesByProximity(fnArg.messages, fnArg.maxGap, fnArg.maxBucketSize))

SpecBuckets == InitBuckets /\ [][CallBucketMessagesByProximity]_vars

BucketsReturned == FnReturned("bucketMessagesByProximity")

RECURSIVE Flatten(_)
Flatten(buckets) ==
    IF buckets = <<>> THEN <<>> ELSE Head(buckets) \o Flatten(Tail(buckets))

\* seq is the input in timestamp order, messages of equal timestamp in their
\* input order.
IsSortedInput(seq, messages) ==
    /\ Len(seq) = Len(messages)
    /\ \E p \in [1 .. Len(seq) -> 1 .. Len(seq)] :
        /\ \A i, j \in 1 .. Len(seq) : i # j => p[i] # p[j]
        /\ \A i \in 1 .. Len(seq) : seq[i] = messages[p[i]]
        /\ \A i, j \in 1 .. Len(seq) :
            i < j => /\ ~timeBefore(seq[j].Timestamp, seq[i].Timestamp)
                     /\ (~timeBefore(seq[i].Timestamp, seq[j].Timestamp) => p[i] < p[j])

BothTimed(a, b) == ~a.Timestamp.zero /\ ~b.Timestamp.zero

\* C29 as stated: the buckets are non-empty, concatenate to the sorted
\* input, hold at most maxBucketSize messages each, keep neighbours at most
\* maxGap apart, and a bucket ends exactly where the gap to the next message
\* exceeds maxGap or the bucket is full.
C29_BucketsPartitionByGap ==
    BucketsReturned =>
        LET bs == fnRet
        IN  /\ \A k \in 1 .. Len(bs) : bs[k] # <<>> /\ Len(bs[k]) <= fnArg.maxBucketSize
            /\ IsSortedInput(Flatten(bs), fnArg.messages)
            /\ \A k \in 1 .. Len(bs) : \A i \in 2 .. Len(bs[k]) :
                timeSub(bs[k][i].Timestamp, bs[k][i - 1].Timestamp) <= fnArg.maxGap
            /\ \A k \in 2 .. Len(bs) :
                \/ Len(bs[k - 1]) = fnArg.maxBucketSize
                \/ timeSub(bs[k][1].Timestamp,
                           bs[k - 1][Len(bs[k - 1])].Timestamp) > fnArg.maxGap

\* C29, amended: for maxBucketSize >= 1 the buckets are non-empty,
\* concatenate to the sorted input and hold at most maxBucketSize messages
\* each; neighbours inside a bucket that both carry a timestamp are at most
\* maxGap apart, and a bucket ends exactly where it is full or where both
\* neighbours carry a timestamp and their gap exceeds maxGap.  For
\* maxBucketSize <= 0 there are no buckets.
C29_BucketsPartitionTimedByGap ==
    BucketsReturned =>
        LET bs == fnRet
        IN  IF fnArg.maxBucketSize <= 0 THEN bs = <<>>
            ELSE
            /\ \A k \in 1 .. Len(bs) : bs[k] # <<>> /\ Len(bs[k]) <= fnArg.maxBucketSize
            /\ IsSortedInput(Flatten(bs), fnArg.messages)
            /\ \A k \in 1 .. Len(bs) : \A i \in 2 .. Len(bs[k]) :
                BothTimed(bs[k][i], bs[k][i - 1]) =>
                    timeSub(bs[k][i].Timestamp, bs[k][i - 1].Timestamp) <= fnArg.maxGap
            /\ \A k \in 2 .. Len(bs) :
                \/ Len(bs[k - 1]) = fnArg.maxBucketSize
                \/ /\ BothTimed(bs[k][1], bs[k - 1][Len(bs[k - 1])])
                   /\ timeSub(bs[k][1].Timestamp,
                              bs[k - 1][Len(bs[k - 1])].Timestamp) > fnArg.maxGap

\* Three messages given out of order, one without a timestamp: the untimed
\* one shares the first bucket, the gap splits off the last.
C29_Witness ==
    /\ BucketsReturned
    /\ Len(fnRet) = 2
    /\ Len(fnRet[1]) = 2
    /\ fnRet[1][1].Timestamp.zero
    /\ ~fnRet[1][2].Timestamp.zero
    /\ fnArg.messages[1] = fnRet[2][1]
    /\ fnArg.maxBucketSize = 3

\* ------------------------------------------------ Search: order of events
EventRank(e) ==
    CASE e = "dial" -> 1
      [] e = "write" -> 2
      [] e = "read" -> 3
      [] e = "close" -> 4

\* C30: Search, the calls made on each connection come in the order dial,
\* write, read, close (no call is followed by one that belongs before it),
\* each connection is written at most once and read at most once, and when a
\* connection is dialled every earlier connection of the call is closed.
C30_EventsInOrder ==
    op = "Search" =>
        /\ \A i \in 1 .. Len(conns) :
              /\ \A j, k \in 1 .. Len(conns[i].log) :
                    j < k => EventRank(conns[i].log[j]) <= EventRank(conns[i].log[k])
              /\ conns[i].writes <= 1
              /\ conns[i].reads <= 1
        /\ \A i \in 1 .. Len(conns) - 1 : ~conns[i].open

\* ---------------------------------------------------------- backoff schedule
\* The sleeps of the call so far are those of the delay function, in order,
\* and a call that is asleep sleeps after its failed attempt number attempt.
SleepsFollowRetryDelay ==
    op \in {"IndexURL", "Search"} =>
        /\ \A k \in 1 .. Len(sleeps) : sleeps[k] = retryDelay(c, k - 1)
        /\ pc = "sleep" =>
              /\ Len(sleeps) = attempt + 1
              /\ timer = retryDelay(c, attempt)
              /\ op = "IndexURL" => Len(posts) = attempt + 1
              /\ op = "Search" => Len(dials) = attempt + 1

\* C31: in IndexURL and in Search alike, the sleep after failed attempt i
\* lasts retryDelay(i), the value of the one delay function both use; a
\* sleep that does not run to its end ends the call with the cancellation
\* error, the context being cancelled, and no further attempt is made; a
\* sleep that runs to its end is followed by attempt i+1.
C31_BackoffSchedule ==
    [][/\ SleepsFollowRetryDelay
       /\ SleepsFollowRetryDelay'
       /\ (pc = "sleep" /\ pc' = "done") =>
             /\ ctxErr
             /\ result' = CtxError
             /\ timer' = 0
             /\ <<attempt, posts, dials>>' = <<attempt, posts, dials>>
       /\ (pc = "sleep" /\ pc' # "sleep" /\ pc' # "done") =>
             /\ pc' = retryPc
             /\ attempt' = attempt + 1]_vars

\* A Search whose second backoff sleep was cut short by the cancellation.
C31_Witness ==
    /\ op = "Search"
    /\ pc = "done"
    /\ cancelPc = "sleep"
    /\ result = CtxError
    /\ Len(sleeps) = 2
    /\ sleeps[1] < sleeps[2]
    /\ Len(dials) = 2

\* ------------------------------------------------- Search: the deadlines set
\* The round trips of one Search against a clock: timer is time.Now() in
\* ticks, fnArg the client's Timeout after prepare and the caller's context
\* (with or without a deadline), calls the deadlines set on the connections
\* so far.
MaxNow == 4
MaxDeadlineAttempts == 2

DeadlineContexts ==
    {[has |-> FALSE, deadline |-> 0]} \cup { [has |-> TRUE, deadline |-> d] : d \in {1, 3, 5} }

\* Mutant of combinedDeadline: the caller's deadline is ignored.
combinedDeadlineTimeoutOnly(ctx, now, timeout) ==
    [deadline |-> now + timeout, ok |-> timeout > 0]

\* combinedDeadline(ctx, timeout) called at time now.
combinedDeadline(ctx, now, timeout) ==
    LET own == [deadline |-> IF timeout > 0 THEN now + timeout ELSE 0,
                ok |-> timeout > 0]
    IN  IF ctx.has /\ (~own.ok \/ ctx.deadline < own.deadline)
        THEN [deadline |-> ctx.deadline, ok |-> TRUE]
        ELSE own

InitDeadline ==
    FnInit("deadlines",
           { [Timeout |-> t, ctx |-> x] : t \in {1, 2}, x \in DeadlineContexts })

DeadlineUnchanged ==
    UNCHANGED <<c, configured, op, ctxErr, cancelPc, sleeps, result, addVars, searchVars,
                fnArg, fnRet>>

\* Time passes.
ClockTicks ==
    /\ op = "deadlines"
    /\ timer < MaxNow
    /\ timer' = timer + 1
    /\ UNCHANGED <<pc, attempt, calls>>
    /\ DeadlineUnchanged

\* The deadline an operation of the current attempt gets when it is set now.
SetDeadline(kind) ==
    LET d == combinedDeadline(fnArg.ctx, timer, fnArg.Timeout)
    IN  calls' = IF d.ok
                 THEN Append(calls, [kind |-> kind, attempt |-> attempt,
                                     at |-> timer, deadline |-> d.deadline])
                 ELSE calls

\* searchOnce: conn.SetWriteDeadline, then the write.
SetWriteDeadline ==
    /\ op = "deadlines"
    /\ pc = "call"
    /\ SetDeadline("write")
    /\ pc' = "read"
    /\ UNCHANGED <<timer, attempt>>
    /\ DeadlineUnchanged

\* readMessageWithContext: conn.SetReadDeadline, then the read.
SetReadDeadline ==
    /\ op = "deadlines"
    /\ pc = "read"
    /\ SetDeadline("read")
    /\ pc' = "retry"
    /\ UNCHANGED <<timer, attempt>>
    /\ DeadlineUnchanged

\* The round trip failed retryably with the context live: after the backoff
\* the loop dials again and enters searchOnce.
NextRoundTrip ==
    /\ op = "deadlines"
    /\ pc = "retry"
    /\ attempt < MaxDeadlineAttempts
    /\ ~(fnArg.ctx.has /\ timer >= fnArg.ctx.deadline)
    /\ attempt' = attempt + 1
    /\ pc' = "call"
    /\ UNCHANGED <<timer, calls>>
    /\ DeadlineUnchanged

\* The caller's deadline has passed: ctx.Err() is set and Search returns it.
ContextExpired ==
    /\ op = "deadlines"
    /\ pc = "retry"
    /\ fnArg.ctx.has /\ timer >= fnArg.ctx.deadline
    /\ pc' = "ret"
    /\ UNCHANGED <<timer, attempt, calls>>
    /\ DeadlineUnchanged

NextDeadline ==
    \/ ClockTicks
    \/ SetWriteDeadline
    \/ SetReadDeadline
    \/ NextRoundTrip
    \/ ContextExpired

SpecDeadline == InitDeadline /\ [][NextDeadline]_vars

\* C32: every deadline set before a write or a read is
\* min(now + Timeout, caller's deadline) when the context has a deadline and
\* now + Timeout otherwise, now being the time at which that operation is
\* started: it is computed anew for each operation, so without a caller's
\* deadline an operation started later gets a later deadline, whatever time
\* the attempts before it took.
C32_DeadlinePerOperation ==
    op = "deadlines" =>
        /\ \A i \in 1 .. Len(calls) :
              calls[i].deadline =
                  IF fnArg.ctx.has
                  THEN minOf(calls[i].at + fnArg.Timeout, fnArg.ctx.deadline)
                  ELSE calls[i].at + fnArg.Timeout
        /\ \A i, j \in 1 .. Len(calls) :
              (~fnArg.ctx.has /\ calls[i].at < calls[j].at)
                  => calls[i].deadline < calls[j].deadline
        /\ Len(calls) = 2 * attempt + (CASE pc = "call" -> 0 [] pc = "read" -> 1 [] OTHER -> 2)

\* A third attempt whose read starts after the deadline computed for the
\* first attempt's read has passed: it gets a deadline of its own, this time
\* the caller's, which is the nearer one.
C32_Witness ==
    /\ op = "deadlines"
    /\ Len(calls) = 6
    /\ fnArg.ctx.has
    /\ calls[2].deadline = calls[2].at + fnArg.Timeout
    /\ calls[6].at > calls[2].deadline
    /\ calls[6].deadline = fnArg.ctx.deadline
    /\ calls[6].deadline < calls[6].at + fnArg.Timeout

PagingServers ==
    { [END |-> [err |-> FALSE, Chunk |-> c1, End |-> e1],
       t1 |-> [err |-> x2, Chunk |-> c2, End |-> e2]] :
        c1 \in SeqsUpTo(HistoryEvents, 1), e1 \in {"", "END", "t1"},
        x2 \in BOOLEAN, c2 \in SeqsUpTo(HistoryEvents, 1), e2 \in {"", "END", "t1"} }

InitPaging ==
    FnInit("paging",
           { [server |-> sv, since |-> t, max |-> m] :
               sv \in PagingServers, t \in {1, 2}, m \in 0 .. MaxRecent })

PagingUnchanged ==
    UNCHANGED <<c, configured, op, ctxErr, cancelPc, attempt, sleeps, timer, result,
                addVars, searchVars, fnArg, calls>>

\* The call checks max and sets out and from.
EnterRecent ==
    /\ op = "paging"
    /\ pc = "call"
    /\ IF fnArg.max <= 0
       THEN /\ fnRet' = [err |-> "max must be greater than zero", out |-> <<>>, from |-> ""]
            /\ pc' = "ret"
       ELSE /\ fnRet' = [err |-> "", out |-> <<>>, from |-> "END"]
            /\ pc' = "page"
    /\ PagingUnchanged

\* One turn of the loop "for len(out) < max": the page at from is fetched and
\* scanned, and the call returns or goes on with from = resp.End.
FetchPage ==
    /\ op = "paging"
    /\ pc = "page"
    /\ LET resp == fnArg.server[fnRet.from]
           scanned == scanChunk(resp.Chunk, fnArg.since, fnArg.max, fnRet.out)
       IN  IF resp.err
           THEN /\ fnRet' = [fnRet EXCEPT !.err = "fetch room messages", !.out = <<>>]
                /\ pc' = "ret"
           ELSE IF Len(resp.Chunk) = 0
           THEN /\ pc' = "ret"
                /\ UNCHANGED fnRet
           ELSE IF \/ Len(scanned.out) >= fnArg.max
                   \/ scanned.reachedBeforeSince
                   \/ resp.End = ""
                   \/ resp.End = fnRet.from
           THEN /\ fnRet' = [fnRet EXCEPT !.out = scanned.out]
                /\ pc' = "ret"
           ELSE /\ fnRet' = [fnRet EXCEPT !.out = scanned.out, !.from = resp.End]
                /\ pc' = "page"
    /\ PagingUnchanged

NextPaging == EnterRecent \/ FetchPage

\* The call keeps running: a step that can be taken is taken.
SpecPaging == InitPaging /\ [][NextPaging]_vars /\ WF_vars(NextPaging)

\* C36: GetRecentTextMessages terminates whatever the homeserver returns:
\* every call reaches its return, after finitely many page requests.
C36_RecentTerminates == <>(pc = "ret")

Next ==
    \/ AssignFields
    \/ Cancel
    \/ SleepFires
    \/ SleepCancelled
    \/ StartIndexURL
    \/ ExtractReturns
    \/ ExtractFails
    \/ PostTransportError
    \/ PostResponse
    \/ StartSearch
    \/ DialFails
    \/ DialSucceeds
    \/ WriteFails
    \/ WriteSucceeds
    \/ ReaderStarts
    \/ ReadReturns
    \/ ReaderSends
    \/ Park
    \/ SelectCtxDone
    \/ SelectResult
    \/ AfterSearchOnce
    \/ Return

Spec == Init /\ [][Next]_vars

====
